---- MODULE Spec2Model ----
(***************************************************************************)
(* Model of the mempool tools: the live monitor (MempoolMonitor, one poll   *)
(* cycle per loop iteration, mempool-monitor.ts), the monitor that also     *)
(* submits a transaction for a detected one (part_001), the batch           *)
(* comparator (MempoolComparator.compareFiles, mempool-compare.ts) and the  *)
(* collector (MempoolCollector, mempool-collector.ts), each from its        *)
(* main().                                                                  *)
(***************************************************************************)
EXTENDS Integers, Sequences, FiniteSets, TLC

(***************************************************************************)
(* Bounds of the model.                                                     *)
(***************************************************************************)
\* Largest number of (sub-pool, address, nonce) entries in one snapshot.
MaxEntries == 2
\* Largest number of poll cycles of one monitor run.
MaxCycles == 3
\* Largest reading of the wall clock (milliseconds since the run started).
MaxTime == 2
\* Largest advance of the wall clock during one synchronous pass of checkMempool.
MaxPassTicks == 1
\* Largest number of poll cycles of one run of the monitor with submission.
MaxSendCycles == 2
\* Largest number of collection cycles of one collector run.
MaxCollections == 2

(***************************************************************************)
(* Data model (types.ts).                                                   *)
(***************************************************************************)
\* The transaction hashes that occur.
Hashes == {"0xaa", "0xbb", "0xcc"}

\* The (address, nonce) keys of a sub-pool, in the order Object.entries walks
\* them: addresses in insertion order, integer-like nonce keys ascending.
KeySeq == << <<"0x1", "5">>, <<"0x1", "6">>, <<"0x2", "5">> >>
Keys == {KeySeq[i] : i \in 1..Len(KeySeq)}

\* MempoolContent: address -> nonce -> transaction, flattened to a function
\* from the (address, nonce) keys present to the transaction's hash.
MempoolContent == UNION {[K -> Hashes] : K \in SUBSET Keys}

NoContent == [k \in {} |-> "0xaa"]

\* MempoolResult: the two sub-pools; has[p] is FALSE when the key p is missing
\* from the object (mempoolData[p] is undefined).
MempoolResult ==
  {s \in [pending : MempoolContent, queued : MempoolContent,
          has : [{"pending", "queued"} -> BOOLEAN]] :
     /\ Cardinality(DOMAIN s.pending) + Cardinality(DOMAIN s.queued) <= MaxEntries
     /\ (~s.has["pending"] => s.pending = NoContent)
     /\ (~s.has["queued"] => s.queued = NoContent)}

EmptyResult == [pending |-> NoContent, queued |-> NoContent,
                has |-> [p \in {"pending", "queued"} |-> TRUE]]

\* mempoolData[poolType], with undefined read as the empty object where the
\* code does so (mempoolData.pending || {}, poolData && ...).
PoolData(mempoolData, poolType) ==
  IF ~mempoolData.has[poolType] THEN NoContent
  ELSE IF poolType = "pending" THEN mempoolData.pending ELSE mempoolData.queued

(***************************************************************************)
(* MempoolComparator (mempool-compare.ts).                                  *)
(***************************************************************************)
\* One loop of extractAllTransactions: the entries of one sub-pool, one per
\* (address, nonce) key, in Object.entries order.
RECURSIVE ExtractPoolFrom(_, _, _)
ExtractPoolFrom(content, poolType, i) ==
  IF i > Len(KeySeq) THEN <<>>
  ELSE (IF KeySeq[i] \in DOMAIN content
        THEN << [hash |-> content[KeySeq[i]], nonce |-> KeySeq[i][2],
                 poolType |-> poolType, address |-> KeySeq[i][1]] >>
        ELSE <<>>) \o ExtractPoolFrom(content, poolType, i + 1)

\* Variant: a snapshot without the pending key yields no entries at all.
extractAllTransactionsStopAtMissing(mempoolData) ==
  IF ~mempoolData.has["pending"] THEN <<>>
  ELSE ExtractPoolFrom(PoolData(mempoolData, "pending"), "pending", 1)
         \o ExtractPoolFrom(PoolData(mempoolData, "queued"), "queued", 1)

\* Variant: an entry whose hash an earlier entry carries is dropped.
extractAllTransactionsUniqueHash(mempoolData) ==
  LET all == ExtractPoolFrom(PoolData(mempoolData, "pending"), "pending", 1)
               \o ExtractPoolFrom(PoolData(mempoolData, "queued"), "queued", 1)
      first == {i \in 1..Len(all) : \A j \in 1..(i - 1) : all[j].hash # all[i].hash}
      RECURSIVE Keep(_)
      Keep(i) == IF i > Len(all) THEN <<>>
                 ELSE (IF i \in first THEN << all[i] >> ELSE <<>>) \o Keep(i + 1)
  IN Keep(1)

extractAllTransactions(mempoolData) ==
  ExtractPoolFrom(PoolData(mempoolData, "pending"), "pending", 1)
    \o ExtractPoolFrom(PoolData(mempoolData, "queued"), "queued", 1)

\* new Map(transactions.map(tx => [tx.hash, tx])): a later entry with the same
\* hash replaces the earlier one.
RECURSIVE TxMapFrom(_, _, _)
TxMapFrom(transactions, i, map) ==
  IF i > Len(transactions) THEN map
  ELSE TxMapFrom(transactions, i + 1,
         [h \in DOMAIN map \cup {transactions[i].hash} |->
            IF h = transactions[i].hash THEN transactions[i] ELSE map[h]])

NoTxMap == [h \in {} |-> [hash |-> "0xaa", nonce |-> "5",
                          poolType |-> "pending", address |-> "0x1"]]

\* Variant: the lookup holds the pending entries only.
TxMapPendingOnly(transactions) ==
  TxMapFrom(SelectSeq(transactions, LAMBDA tx : tx.poolType = "pending"), 1, NoTxMap)

\* Variant: the first entry with a hash is kept, a later one dropped.
TxMapKeepFirst(transactions) ==
  TxMapFrom([i \in 1..Len(transactions) |-> transactions[Len(transactions) + 1 - i]],
            1, NoTxMap)

TxMap(transactions) == TxMapFrom(transactions, 1, NoTxMap)

\* Variant: the queued-to-pending branch is missing.
ClassifyFirstNoMovedToPending(tx, secondTxMap) ==
  IF tx.hash \notin DOMAIN secondTxMap THEN "disappeared"
  ELSE IF tx.poolType = secondTxMap[tx.hash].poolType THEN "stillPending"
  ELSE IF tx.poolType = "pending" /\ secondTxMap[tx.hash].poolType = "queued"
    THEN "movedToQueued"
  ELSE "none"

\* Variant: an entry stays in the same pool only if its address and nonce are
\* unchanged too.
ClassifyFirstByLocation(tx, secondTxMap) ==
  IF tx.hash \notin DOMAIN secondTxMap THEN "disappeared"
  ELSE IF /\ tx.poolType = secondTxMap[tx.hash].poolType
          /\ tx.address = secondTxMap[tx.hash].address
          /\ tx.nonce = secondTxMap[tx.hash].nonce THEN "stillPending"
  ELSE IF tx.poolType = "pending" /\ secondTxMap[tx.hash].poolType = "queued"
    THEN "movedToQueued"
  ELSE IF tx.poolType = "queued" /\ secondTxMap[tx.hash].poolType = "pending"
    THEN "movedToPending"
  ELSE "none"

\* The branch of the first loop of compareFiles taken for one entry of the
\* first snapshot.
ClassifyFirst(tx, secondTxMap) ==
  IF tx.hash \notin DOMAIN secondTxMap THEN "disappeared"
  ELSE IF tx.poolType = secondTxMap[tx.hash].poolType THEN "stillPending"
  ELSE IF tx.poolType = "pending" /\ secondTxMap[tx.hash].poolType = "queued"
    THEN "movedToQueued"
  ELSE IF tx.poolType = "queued" /\ secondTxMap[tx.hash].poolType = "pending"
    THEN "movedToPending"
  ELSE "none"

\* Variant: the test is lost and every entry of the second snapshot is new.
IsNewInSecondAlways(tx, firstTxMap) == TRUE

\* Variant: an entry whose hash changed its sub-pool counts as new too.
IsNewInSecondPoolChange(tx, firstTxMap) ==
  \/ tx.hash \notin DOMAIN firstTxMap
  \/ firstTxMap[tx.hash].poolType # tx.poolType

\* The test of the second loop of compareFiles.
IsNewInSecond(tx, firstTxMap) == tx.hash \notin DOMAIN firstTxMap

\* Variant: an entry found in the second snapshot is reported with the
\* location the second snapshot's lookup holds for its hash.
compareFilesSecondLocation(firstData, secondData) ==
  LET firstTransactions == extractAllTransactions(firstData)
      secondTransactions == extractAllTransactions(secondData)
      firstTxMap == TxMap(firstTransactions)
      secondTxMap == TxMap(secondTransactions)
      Bucket(c) == SelectSeq(firstTransactions,
                             LAMBDA tx : ClassifyFirst(tx, secondTxMap) = c)
      Located(txs) == [i \in 1..Len(txs) |-> secondTxMap[txs[i].hash]]
  IN [disappearedTransactions |-> Bucket("disappeared"),
      newTransactions |-> SelectSeq(secondTransactions,
                                    LAMBDA tx : IsNewInSecond(tx, firstTxMap)),
      stillPending |-> Located(Bucket("stillPending")),
      movedToQueued |-> Located(Bucket("movedToQueued")),
      movedToPending |-> Located(Bucket("movedToPending"))]

compareFiles(firstData, secondData) ==
  LET firstTransactions == extractAllTransactions(firstData)
      secondTransactions == extractAllTransactions(secondData)
      firstTxMap == TxMap(firstTransactions)
      secondTxMap == TxMap(secondTransactions)
      Bucket(c) == SelectSeq(firstTransactions,
                             LAMBDA tx : ClassifyFirst(tx, secondTxMap) = c)
  IN [disappearedTransactions |-> Bucket("disappeared"),
      newTransactions |-> SelectSeq(secondTransactions,
                                    LAMBDA tx : IsNewInSecond(tx, firstTxMap)),
      stillPending |-> Bucket("stillPending"),
      movedToQueued |-> Bucket("movedToQueued"),
      movedToPending |-> Bucket("movedToPending")]

NoComparison == [disappearedTransactions |-> <<>>, newTransactions |-> <<>>,
                 stillPending |-> <<>>, movedToQueued |-> <<>>,
                 movedToPending |-> <<>>]

\* The timestamp field of a collected file (ISO format, set by the collector
\* when it wrote the file).
EarlierTime == "2024-01-01T00:00:00.000Z"
LaterTime == "2024-01-01T00:00:05.000Z"
FileTimes == {EarlierTime, LaterTime}

\* Variant: the two timestamps are exchanged.
SummaryOfTimesExchanged(result, firstTimestamp, secondTimestamp) ==
  [totalDisappeared |-> Len(result.disappearedTransactions),
   totalNew |-> Len(result.newTransactions),
   totalStillPending |-> Len(result.stillPending),
   totalMovedToQueued |-> Len(result.movedToQueued),
   totalMovedToPending |-> Len(result.movedToPending),
   firstFileTime |-> secondTimestamp,
   secondFileTime |-> firstTimestamp]

\* The summary of the result compareFiles returns: the lengths of the five
\* arrays and the timestamps loadMempoolFile read from the two files.
SummaryOf(result, firstTimestamp, secondTimestamp) ==
  [totalDisappeared |-> Len(result.disappearedTransactions),
   totalNew |-> Len(result.newTransactions),
   totalStillPending |-> Len(result.stillPending),
   totalMovedToQueued |-> Len(result.movedToQueued),
   totalMovedToPending |-> Len(result.movedToPending),
   firstFileTime |-> firstTimestamp,
   secondFileTime |-> secondTimestamp]

NoComparisonSummary == SummaryOf(NoComparison, "", "")

\* The values of a file argument of main(): not given, the path of no file,
\* the path of a collected mempool file.
FileArgs == {"", "absent.json", "mempool.json"}

\* Variant: only the first path is required.
FilesAcceptedFirstOnly(first, second) == first = "mempool.json"

\* main(): both paths are given and both files exist.
FilesAccepted(first, second) ==
  /\ ~(first = "" \/ second = "")
  /\ first = "mempool.json"
  /\ second = "mempool.json"

(***************************************************************************)
(* MempoolMonitor (mempool-monitor.ts).                                     *)
(***************************************************************************)
\* config.walletAddress, normalised once by the constructor.
walletAddress == "0x1"

\* The nonce keys of one address, in Object.entries order.
NonceSeq == <<"5", "6">>

\* poolData[address]: nonce -> transaction hash (empty when the address has
\* no entry, which the code skips).
AddressData(content, address) ==
  [n \in {k[2] : k \in {q \in DOMAIN content : q[1] = address}} |->
     content[<<address, n>>]]

RECURSIVE ExtractAddressFrom(_, _, _)
ExtractAddressFrom(addressData, poolType, i) ==
  IF i > Len(NonceSeq) THEN <<>>
  ELSE (IF NonceSeq[i] \in DOMAIN addressData
        THEN << [hash |-> addressData[NonceSeq[i]], nonce |-> NonceSeq[i],
                 poolType |-> poolType] >>
        ELSE <<>>) \o ExtractAddressFrom(addressData, poolType, i + 1)

extractTransactionsFromAddress(addressData, poolType) ==
  ExtractAddressFrom(addressData, poolType, 1)

\* The outcomes of the axios call: an error (network, timeout), a response
\* without a result, a response with a result.
Responses ==
  {[error |-> TRUE, hasResult |-> FALSE, result |-> EmptyResult],
   [error |-> FALSE, hasResult |-> FALSE, result |-> EmptyResult]}
  \cup {[error |-> FALSE, hasResult |-> TRUE, result |-> s] : s \in MempoolResult}

\* makeApiRequest: the result, or null.
Null == [isNull |-> TRUE, value |-> EmptyResult]

makeApiRequest(response) ==
  IF ~response.error /\ response.hasResult
  THEN [isNull |-> FALSE, value |-> response.result]
  ELSE Null

\* Variant: only the pending sub-pool is walked.
WalletTransactionsPendingOnly(data) ==
  extractTransactionsFromAddress(AddressData(PoolData(data, "pending"), walletAddress), "pending")

\* Variant: the queued sub-pool is walked before the pending one.
WalletTransactionsQueuedFirst(data) ==
  extractTransactionsFromAddress(AddressData(PoolData(data, "queued"), walletAddress), "queued")
    \o extractTransactionsFromAddress(AddressData(PoolData(data, "pending"), walletAddress), "pending")

\* Variant: the entries of every address are walked (a scan of the whole
\* snapshot in place of the lookup of the monitored address).
WalletTransactionsAnyAddress(data) ==
  LET all == extractAllTransactions(data)
  IN [i \in 1..Len(all) |->
        [hash |-> all[i].hash, nonce |-> all[i].nonce, poolType |-> all[i].poolType]]

\* The entries checkMempool walks: the monitored address's entries of the
\* pending sub-pool, then those of the queued sub-pool.
WalletTransactions(data) ==
  extractTransactionsFromAddress(AddressData(PoolData(data, "pending"), walletAddress), "pending")
    \o extractTransactionsFromAddress(AddressData(PoolData(data, "queued"), walletAddress), "queued")

\* Variant: the membership test is lost and every entry counts as new.
IsNewTransactionAlways(seen, hash) == TRUE

\* !this.seenTransactions.has(tx.hash)
IsNewTransaction(seen, hash) == hash \notin seen

\* Variant: the hash is not added.
AddSeenNothing(seen, hash) == seen

\* Variant: the set is replaced by the new hash.
AddSeenReplace(seen, hash) == {hash}

\* this.seenTransactions.add(tx.hash)
AddSeen(seen, hash) == seen \cup {hash}

NoFirstSeen == [h \in {} |-> 0]

\* Variant: the time is not recorded.
SetFirstSeenNothing(firstSeen, hash, date) == firstSeen

\* this.firstSeenTimes.set(tx.hash, new Date())
SetFirstSeen(firstSeen, hash, date) ==
  [h \in DOMAIN firstSeen \cup {hash} |-> IF h = hash THEN date ELSE firstSeen[h]]

\* Variant: only the entries that are new are pushed to allWalletTransactions.
RECURSIVE CheckFromAllOnlyNew(_, _, _, _)
CheckFromAllOnlyNew(transactions, dates, i, st) ==
  IF i > Len(transactions) THEN st
  ELSE LET tx == transactions[i]
           isNew == IsNewTransaction(st.seenTransactions, tx.hash)
       IN CheckFromAllOnlyNew(transactions, dates, i + 1,
            IF isNew
            THEN [seenTransactions |-> AddSeen(st.seenTransactions, tx.hash),
                  firstSeenTimes |-> SetFirstSeen(st.firstSeenTimes, tx.hash, dates[i]),
                  newTransactions |-> Append(st.newTransactions, tx),
                  allWalletTransactions |-> Append(st.allWalletTransactions, tx)]
            ELSE st)

\* Variant: the membership test reads the set as it was when the pass began,
\* the hashes of the pass being added only at its end.
RECURSIVE CheckFromSeenAtStart(_, _, _, _)
CheckFromSeenAtStart(transactions, dates, i, st) ==
  IF i > Len(transactions) THEN st
  ELSE LET tx == transactions[i]
           added == {st.newTransactions[k].hash : k \in 1..Len(st.newTransactions)}
           isNew == IsNewTransaction(st.seenTransactions \ added, tx.hash)
       IN CheckFromSeenAtStart(transactions, dates, i + 1,
            [seenTransactions |->
               IF isNew THEN AddSeen(st.seenTransactions, tx.hash)
               ELSE st.seenTransactions,
             firstSeenTimes |->
               IF isNew THEN SetFirstSeen(st.firstSeenTimes, tx.hash, dates[i])
               ELSE st.firstSeenTimes,
             newTransactions |->
               IF isNew THEN Append(st.newTransactions, tx)
               ELSE st.newTransactions,
             allWalletTransactions |-> Append(st.allWalletTransactions, tx)])

\* The inner loop of checkMempool from entry i on; dates[i] is the reading of
\* new Date() while entry i is handled.
RECURSIVE CheckFrom(_, _, _, _)
CheckFrom(transactions, dates, i, st) ==
  IF i > Len(transactions) THEN st
  ELSE LET tx == transactions[i]
           isNew == IsNewTransaction(st.seenTransactions, tx.hash)
       IN CheckFrom(transactions, dates, i + 1,
            [seenTransactions |->
               IF isNew THEN AddSeen(st.seenTransactions, tx.hash)
               ELSE st.seenTransactions,
             firstSeenTimes |->
               IF isNew THEN SetFirstSeen(st.firstSeenTimes, tx.hash, dates[i])
               ELSE st.firstSeenTimes,
             newTransactions |->
               IF isNew THEN Append(st.newTransactions, tx)
               ELSE st.newTransactions,
             allWalletTransactions |-> Append(st.allWalletTransactions, tx)])

\* Variant: a failed request is treated as a fresh start.
checkMempoolResetOnNull(data, dates, seen, firstSeen) ==
  IF data.isNull
  THEN [seenTransactions |-> {}, firstSeenTimes |-> NoFirstSeen,
        newTransactions |-> <<>>, allWalletTransactions |-> <<>>]
  ELSE CheckFrom(WalletTransactions(data.value), dates, 1,
         [seenTransactions |-> seen, firstSeenTimes |-> firstSeen,
          newTransactions |-> <<>>, allWalletTransactions |-> <<>>])

\* checkMempool after the request returned mempoolData: the state and the
\* returned pair.
checkMempool(data, dates, seen, firstSeen) ==
  IF data.isNull
  THEN [seenTransactions |-> seen, firstSeenTimes |-> firstSeen,
        newTransactions |-> <<>>, allWalletTransactions |-> <<>>]
  ELSE CheckFrom(WalletTransactions(data.value), dates, 1,
         [seenTransactions |-> seen, firstSeenTimes |-> firstSeen,
          newTransactions |-> <<>>, allWalletTransactions |-> <<>>])

\* The keys of the firstSeenTimes Map in insertion order, after the cycle that
\* returned newTransactions: Map.set appends a key the Map does not hold yet.
RECURSIVE KeysAfterSet(_, _, _)
KeysAfterSet(keys, transactions, i) ==
  IF i > Len(transactions) THEN keys
  ELSE KeysAfterSet(
         IF \E j \in 1..Len(keys) : keys[j] = transactions[i].hash THEN keys
         ELSE Append(keys, transactions[i].hash),
         transactions, i + 1)

\* Array.from(this.firstSeenTimes.entries()): the entries in insertion order.
MapEntries(firstSeen, keys) ==
  LET held == SelectSeq(keys, LAMBDA h : h \in DOMAIN firstSeen)
  IN [i \in 1..Len(held) |-> [hash |-> held[i], time |-> firstSeen[held[i]]]]

\* Variant: the callback's operands are exchanged (newest first).
CompareTimesReversed(a, b) == b - a

\* The sort callback of displaySummary: a.getTime() - b.getTime().
CompareTimes(a, b) == a - b

\* Array.prototype.sort, which is stable: entry i is placed before the first
\* placed entry the callback orders after it.
RECURSIVE SortFrom(_, _, _)
SortFrom(entries, i, sorted) ==
  IF i > Len(entries) THEN sorted
  ELSE LET later == {j \in 1..Len(sorted) :
                       CompareTimes(sorted[j].time, entries[i].time) > 0}
           k == IF later = {} THEN Len(sorted) + 1
                ELSE CHOOSE j \in later : \A l \in later : j <= l
       IN SortFrom(entries, i + 1,
            SubSeq(sorted, 1, k - 1) \o << entries[i] >>
              \o SubSeq(sorted, k, Len(sorted)))

NoSummary == [displayed |-> FALSE, total |-> 0, timeline |-> <<>>]

\* displaySummary: the number of unique transactions and, when firstSeenTimes
\* is not empty, the timeline.
displaySummary(seen, firstSeen, keys) ==
  [displayed |-> TRUE,
   total |-> Cardinality(seen),
   timeline |-> IF Cardinality(DOMAIN firstSeen) > 0
                THEN SortFrom(MapEntries(firstSeen, keys), 1, <<>>)
                ELSE <<>>]

\* config.gasPriceMultiplier, held in hundredths, the value of
\* Math.floor(Number(multiplier) * 100), 0 standing for a value that is falsy
\* (0, or NaN from parseFloat): a falsy value, 0.5 and 2.
GasPriceMultipliers == {0, 50, 200}

\* The submission settings of the monitor with submission: whether
\* PRIVATE_KEY and RECIPIENT_ADDRESS are set, TARGET_TX_HASH ("" when not
\* set) and the gas price multiplier.
SendConfigs ==
  [privateKey : BOOLEAN, recipientAddress : BOOLEAN, targetTxHash : {"", "0xAA"},
   gasPriceMultiplier : GasPriceMultipliers]

NoSendConfig ==
  [privateKey |-> FALSE, recipientAddress |-> FALSE, targetTxHash |-> "",
   gasPriceMultiplier |-> 0]

\* tx.gasPrice of the transaction with a hash (the hash commits to it), in
\* gwei as every gas price of the model.
TransactionGasPrice(hash) ==
  IF hash = "0xaa" THEN 10 ELSE IF hash = "0xbb" THEN 22 ELSE 60

\* feeData.gasPrice as provider.getFeeData() gives it: a price, or 0 for a
\* value that is falsy (null on a network without it, or 0n).
FeeDataGasPrices == {0, 10, 30}

\* ethers.parseUnits('20', 'gwei')
FallbackGasPrice == 20

\* config.gasPriceMultiplier || 1.1
DefaultMultiplier == 110

\* higherGasPrice of sendTransaction: the network's current gas price (the
\* fallback when feeData has none) times the multiplier, in BigInt arithmetic;
\* the target transaction's price is logged, not used.
higherGasPrice(feeGasPrice, cfg, targetTx) ==
  LET currentGasPrice == IF feeGasPrice = 0 THEN FallbackGasPrice ELSE feeGasPrice
      multiplier == IF cfg.gasPriceMultiplier = 0 THEN DefaultMultiplier
                    ELSE cfg.gasPriceMultiplier
  IN (currentGasPrice * multiplier) \div 100

\* The transaction request sendTransaction builds, none being built.
NoTxRequest == [built |-> FALSE, gasPrice |-> 0]

\* String.prototype.toLowerCase on the hashes that occur.
toLowerCase(str) == IF str = "0xAA" THEN "0xaa" ELSE str

\* shouldSendTransaction: every new transaction when no target is set, else
\* the one whose hash equals the target, letter case ignored.
shouldSendTransaction(tx, cfg) ==
  IF cfg.targetTxHash = "" THEN TRUE
  ELSE toLowerCase(tx.hash) = toLowerCase(cfg.targetTxHash)

\* Variant: the recipient address is not required.
CanSendKeyOnly(cfg) == cfg.privateKey

\* The guard of sendTransaction: the wallet (made from the private key) and
\* the recipient address are configured.
CanSend(cfg) == cfg.privateKey /\ cfg.recipientAddress

\* Variant: the entries selected are taken last first.
NextSendFromLast(transactions, i, cfg) ==
  LET selected == {j \in i..Len(transactions) :
                     shouldSendTransaction(transactions[j], cfg) /\ CanSend(cfg)}
  IN IF selected = {} THEN 0
     ELSE CHOOSE j \in selected : \A k \in selected : k <= j

\* The first entry from i on for which displayNewTransactions awaits inside
\* sendTransaction, 0 when there is none.
RECURSIVE NextSendFrom(_, _, _)
NextSendFrom(transactions, i, cfg) ==
  IF i > Len(transactions) THEN 0
  ELSE IF shouldSendTransaction(transactions[i], cfg) /\ CanSend(cfg) THEN i
  ELSE NextSendFrom(transactions, i + 1, cfg)

\* The values of the --wallet argument of main(): not given, not an address,
\* the monitored address.
WalletArgs == {"", "0xZZ", "0x1"}

\* Variant: any argument that is given is accepted.
WalletAcceptedIfGiven(arg) == arg # ""

\* parseArgs: the argument is given and ethers.getAddress accepts it.
WalletAccepted(arg) == arg # "" /\ arg = walletAddress

\* Variant: a failed request is an error the loop's catch block receives.
CycleThrowsOnNull(data, transactions) ==
  IF data.isNull THEN {TRUE}
  ELSE IF transactions = <<>> THEN {FALSE} ELSE BOOLEAN

\* Whether the display of a cycle's result can throw: formatTransactionInfo
\* throws when ethers rejects a value or gas price of a new transaction; a
\* failed request throws nothing, makeApiRequest having caught the error.
CycleThrows(data, transactions) ==
  IF transactions = <<>> THEN {FALSE} ELSE BOOLEAN

\* The readings new Date() can give during one synchronous pass over n
\* entries, the clock standing at `from`: non-decreasing, the clock advancing
\* by at most MaxPassTicks during the pass.
DateReadings(n, from) ==
  LET to == IF from + MaxPassTicks < MaxTime THEN from + MaxPassTicks ELSE MaxTime
  IN {d \in [1..n -> from..to] : \A i \in 1..n : \A j \in i..n : d[i] <= d[j]}

(***************************************************************************)
(* MempoolCollector (mempool-collector.ts).                                 *)
(***************************************************************************)
\* The addresses of a sub-pool in the order Object.values walks them.
AddressSeq == <<"0x1", "0x2">>

\* Object.keys(poolData): the addresses that have an entry.
AddressesOf(content) == {k[1] : k \in DOMAIN content}

\* One loop of countTransactions: over the addresses of a sub-pool, the sum of
\* Object.keys(addressData).length.
RECURSIVE CountPoolFrom(_, _)
CountPoolFrom(content, i) ==
  IF i > Len(AddressSeq) THEN 0
  ELSE (IF AddressSeq[i] \in AddressesOf(content)
        THEN Cardinality(DOMAIN AddressData(content, AddressSeq[i]))
        ELSE 0) + CountPoolFrom(content, i + 1)

\* countTransactions: mempoolData.pending || {} and mempoolData.queued || {}
\* are walked, a missing sub-pool being the empty object.
countTransactions(mempoolData) ==
  [pendingTransactions |-> CountPoolFrom(PoolData(mempoolData, "pending"), 1),
   queuedTransactions |-> CountPoolFrom(PoolData(mempoolData, "queued"), 1)]

\* Variant: the total counts the pending transactions only.
CollectorSummaryPendingTotal(mempoolData) ==
  LET txCounts == countTransactions(mempoolData)
      pendingAddresses == Cardinality(AddressesOf(PoolData(mempoolData, "pending")))
      queuedAddresses == Cardinality(AddressesOf(PoolData(mempoolData, "queued")))
  IN [pendingAddresses |-> pendingAddresses,
      queuedAddresses |-> queuedAddresses,
      totalAddresses |-> pendingAddresses + queuedAddresses,
      pendingTransactions |-> txCounts.pendingTransactions,
      queuedTransactions |-> txCounts.queuedTransactions,
      totalTransactions |-> txCounts.pendingTransactions]

\* The summary collectAndSave creates for the fetched mempoolData.
CollectorSummary(mempoolData) ==
  LET txCounts == countTransactions(mempoolData)
      pendingAddresses == Cardinality(AddressesOf(PoolData(mempoolData, "pending")))
      queuedAddresses == Cardinality(AddressesOf(PoolData(mempoolData, "queued")))
  IN [pendingAddresses |-> pendingAddresses,
      queuedAddresses |-> queuedAddresses,
      totalAddresses |-> pendingAddresses + queuedAddresses,
      pendingTransactions |-> txCounts.pendingTransactions,
      queuedTransactions |-> txCounts.queuedTransactions,
      totalTransactions |-> txCounts.pendingTransactions + txCounts.queuedTransactions]

\* The readings of new Date().toISOString() a collector run can get, in the
\* order of time.
CollectTimes == <<EarlierTime, LaterTime>>

\* `mempool-${timestamp.toISOString().replace(/[:.]/g, '-')}.json`
FileName(timestampStr) ==
  IF timestampStr = EarlierTime THEN "mempool-2024-01-01T00-00-00-000Z.json"
  ELSE IF timestampStr = LaterTime THEN "mempool-2024-01-01T00-00-05-000Z.json"
  ELSE ""

\* The file collectAndSave writes: the name and the dataFile that
\* JSON.stringify serialises (a missing sub-pool key stays missing, the
\* api url of the metadata is left out).
DataFile(mempoolData, timestampStr) ==
  [filename |-> FileName(timestampStr),
   timestamp |-> timestampStr,
   mempoolData |-> mempoolData,
   summary |-> CollectorSummary(mempoolData),
   collectionTime |-> timestampStr,
   version |-> "1.0.0"]

\* The values of the --mode argument of the collector's main().
Modes == {"once", "continuous"}

VARIABLES firstMempool, secondMempool, comparison, compared,
          firstFile, secondFile, cpc, reversed, comparedReversed,
          firstTime, secondTime, comparisonSummary,
          isRunning, pc, seenTransactions, firstSeenTimes, clock, mempoolData,
          newTransactions, allWalletTransactions, cycle,
          everObserved, timesReported, failedCycles, totalReturned,
          walletArg, firstSeenKeys, summary, started,
          config, displayIndex, sendLog, txRequest,
          mode, kpc, collectorRunning, collectorData, savedFiles, filesWritten,
          collections, fetchFailures, collectorClock

cvars == <<firstMempool, secondMempool, comparison, compared,
           firstFile, secondFile, cpc, reversed, comparedReversed,
           firstTime, secondTime, comparisonSummary>>

mvars == <<isRunning, pc, seenTransactions, firstSeenTimes, clock, mempoolData,
           newTransactions, allWalletTransactions, cycle,
           everObserved, timesReported, failedCycles, totalReturned,
           walletArg, firstSeenKeys, summary, started>>

\* The submission settings, the position of displayNewTransactions in its
\* loop while a submission is awaited, the outcomes logged so far and the
\* transaction request of the submission in progress (the monitor with
\* submission, part_001).
svars == <<config, displayIndex, sendLog, txRequest>>

\* The collector's process: the --mode argument, its position, its isRunning
\* flag, the mempoolData of the cycle's collectAndSave and the files its
\* writeFileSync wrote (one, or none), the number of files written over the
\* run, the number of calls of collectAndSave that
\* returned, how many of them had a failed request, and the wall clock (an
\* index of CollectTimes).
kvars == <<mode, kpc, collectorRunning, collectorData, savedFiles, filesWritten,
           collections, fetchFailures, collectorClock>>

vars == <<cvars, mvars, svars, kvars>>

\* The hashes listed under the monitored address in either sub-pool of a
\* snapshot, read off the snapshot itself.
WalletHashes(data) ==
  {PoolData(data, "pending")[k] :
     k \in {q \in DOMAIN PoolData(data, "pending") : q[1] = walletAddress}}
  \cup {PoolData(data, "queued")[k] :
     k \in {q \in DOMAIN PoolData(data, "queued") : q[1] = walletAddress}}

SeqHashes(transactions) == {transactions[i].hash : i \in 1..Len(transactions)}

\* The fields of a monitor as constructed: nothing seen, not running.
\* everObserved, timesReported, failedCycles and started record the run so
\* far: the hashes some cycle's snapshot listed under the monitored address,
\* in how many cycles each hash was returned in newTransactions, how many
\* cycles had a failed request, how many entries the newTransactions returned
\* so far held together, and how many calls of checkMempool began.
MonitorState(now) ==
  /\ isRunning = FALSE
  /\ seenTransactions = {}
  /\ firstSeenTimes = NoFirstSeen
  /\ clock = now
  /\ mempoolData = Null
  /\ newTransactions = <<>>
  /\ allWalletTransactions = <<>>
  /\ cycle = 0
  /\ everObserved = {}
  /\ timesReported = [h \in Hashes |-> 0]
  /\ failedCycles = 0
  /\ totalReturned = 0
  /\ firstSeenKeys = <<>>
  /\ summary = NoSummary
  /\ started = 0
  /\ displayIndex = 0
  /\ sendLog = <<>>
  /\ txRequest = NoTxRequest

\* The fields as constructed, the wall clock reading zero.
MonitorFields == MonitorState(0)

\* A monitor as constructed by main() for the accepted address.
MonitorNew == pc = "new" /\ walletArg = walletAddress /\ MonitorFields

\* The monitor's main() is entered with some --wallet argument.
MonitorMain == pc = "main" /\ walletArg \in WalletArgs /\ MonitorFields

\* No monitor process.
MonitorAbsent == pc = "none" /\ walletArg = "" /\ MonitorFields

\* No comparator process.
CompareIdle ==
  /\ firstMempool = EmptyResult
  /\ secondMempool = EmptyResult
  /\ comparison = NoComparison
  /\ compared = FALSE
  /\ firstFile = ""
  /\ secondFile = ""
  /\ cpc = "none"
  /\ reversed = NoComparison
  /\ comparedReversed = FALSE
  /\ firstTime = ""
  /\ secondTime = ""
  /\ comparisonSummary = NoComparisonSummary

\* The monitor of mempool-monitor.ts submits nothing.
NoSubmission == config = NoSendConfig

\* No collector process.
CollectIdle ==
  /\ mode = "once"
  /\ kpc = "none"
  /\ collectorRunning = FALSE
  /\ collectorData = Null
  /\ savedFiles = <<>>
  /\ filesWritten = 0
  /\ collections = 0
  /\ fetchFailures = 0
  /\ collectorClock = 1

Init == MonitorMain /\ NoSubmission /\ CompareIdle /\ CollectIdle

\* main(): parseArgs exits with code 1 when the wallet address is missing or
\* is rejected by ethers.getAddress; otherwise the monitor is constructed.
ParseArgs ==
  /\ pc = "main"
  /\ pc' = IF WalletAccepted(walletArg) THEN "new" ELSE "failed"
  /\ UNCHANGED <<isRunning, seenTransactions, firstSeenTimes, clock, mempoolData,
                 newTransactions, allWalletTransactions, cycle,
                 everObserved, timesReported, failedCycles, totalReturned,
                 walletArg, firstSeenKeys, summary, started, cvars, kvars, svars>>

\* start(): isRunning is set and the loop's first checkMempool awaits its
\* request.
Start ==
  /\ pc = "new"
  /\ isRunning' = TRUE
  /\ pc' = "fetch"
  /\ started' = started + 1
  /\ UNCHANGED <<seenTransactions, firstSeenTimes, clock, mempoolData,
                 newTransactions, allWalletTransactions, cycle,
                 everObserved, timesReported, failedCycles, totalReturned,
                 walletArg, firstSeenKeys, summary, cvars, kvars, svars>>

\* checkMempool from the moment its request settles: the response, the pass
\* over the monitored address's entries and the state it leaves; responses are
\* the outcomes of the request.  mempoolData keeps the snapshot the cycle
\* fetched until the next iteration begins.
CheckMempoolStep(responses) ==
  /\ pc = "fetch"
  /\ cycle < MaxCycles
  /\ \E response \in responses :
     \E data \in {makeApiRequest(response)} :
     \E n \in {IF data.isNull THEN 0 ELSE Len(WalletTransactions(data.value))} :
     \E dates \in DateReadings(n, clock) :
     \E r \in {checkMempool(data, dates, seenTransactions, firstSeenTimes)} :
     \E observed \in {IF data.isNull THEN {} ELSE WalletHashes(data.value)} :
       /\ mempoolData' = data
       /\ seenTransactions' = r.seenTransactions
       /\ firstSeenTimes' = r.firstSeenTimes
       /\ newTransactions' = r.newTransactions
       /\ allWalletTransactions' = r.allWalletTransactions
       /\ clock' = IF n = 0 THEN clock ELSE dates[n]
       /\ cycle' = cycle + 1
       /\ everObserved' = everObserved \cup observed
       /\ timesReported' =
            [h \in Hashes |->
               IF h \in SeqHashes(r.newTransactions)
               THEN timesReported[h] + 1 ELSE timesReported[h]]
       /\ failedCycles' = IF data.isNull THEN failedCycles + 1 ELSE failedCycles
       /\ totalReturned' = totalReturned + Len(r.newTransactions)
       /\ firstSeenKeys' = KeysAfterSet(firstSeenKeys, r.newTransactions, 1)
  /\ UNCHANGED <<isRunning, walletArg, started, cvars, kvars>>

\* One poll cycle from the moment the request settles: checkMempool's
\* processing, the display of the result, then the loop sleeps.  Formatting a
\* new transaction for display can throw (ethers rejects a malformed value or
\* gas price): the catch block displays the summary and start() returns.
Cycle ==
  /\ CheckMempoolStep(Responses)
  /\ \E thrown \in CycleThrows(mempoolData', newTransactions') :
       /\ pc' = IF thrown THEN "stopped" ELSE "sleep"
       /\ summary' = IF thrown
                     THEN displaySummary(seenTransactions', firstSeenTimes',
                                         firstSeenKeys')
                     ELSE summary
  /\ UNCHANGED svars

\* Variant: the next iteration is started by a timer that does not wait for
\* the cycle in progress (setInterval in place of the awaited loop).
WakeOnTimer ==
  /\ pc \in {"sleep", "fetch"}
  /\ isRunning
  /\ started < MaxCycles + 1
  /\ pc' = "fetch"
  /\ mempoolData' = Null
  /\ newTransactions' = <<>>
  /\ allWalletTransactions' = <<>>
  /\ started' = started + 1
  /\ UNCHANGED <<isRunning, seenTransactions, firstSeenTimes, clock, cycle,
                 everObserved, timesReported, failedCycles, totalReturned,
                 walletArg, firstSeenKeys, summary, cvars, kvars, svars>>

\* The sleep timer fires and the loop test finds isRunning set: the next
\* iteration begins (the previous iteration's mempoolData, newTransactions
\* and allWalletTransactions are gone) and its checkMempool awaits the request.
Wake ==
  /\ pc = "sleep"
  /\ isRunning
  /\ pc' = "fetch"
  /\ mempoolData' = Null
  /\ newTransactions' = <<>>
  /\ allWalletTransactions' = <<>>
  /\ started' = started + 1
  /\ UNCHANGED <<isRunning, seenTransactions, firstSeenTimes, clock, cycle,
                 everObserved, timesReported, failedCycles, totalReturned,
                 walletArg, firstSeenKeys, summary, cvars, kvars, svars>>

\* The awaits of the loop: the request, the sleep timer and, in the monitor
\* with submission, the three awaits of sendTransaction.
AwaitPoints == {"fetch", "sleep", "feeData", "send", "wait"}

\* The SIGINT handler, run while the loop awaits: isRunning is cleared, the
\* summary displayed and the process exits.
Sigint ==
  /\ pc \in AwaitPoints
  /\ isRunning' = FALSE
  /\ pc' = "exited"
  /\ mempoolData' = Null
  /\ newTransactions' = <<>>
  /\ allWalletTransactions' = <<>>
  /\ displayIndex' = 0
  /\ txRequest' = NoTxRequest
  /\ summary' = displaySummary(seenTransactions, firstSeenTimes, firstSeenKeys)
  /\ UNCHANGED <<seenTransactions, firstSeenTimes, clock, cycle,
                 everObserved, timesReported, failedCycles, totalReturned,
                 walletArg, firstSeenKeys, started, cvars, kvars, config, sendLog>>

\* The wall clock advances while the loop awaits the request.
Tick ==
  /\ pc = "fetch"
  /\ clock < MaxTime
  /\ clock' = clock + 1
  /\ UNCHANGED <<isRunning, pc, seenTransactions, firstSeenTimes, mempoolData,
                 newTransactions, allWalletTransactions, cycle,
                 everObserved, timesReported, failedCycles, totalReturned,
                 walletArg, firstSeenKeys, summary, started, cvars, kvars, svars>>

Next == ParseArgs \/ Start \/ Cycle \/ Wake \/ Sigint \/ Tick

Spec == Init /\ [][Next]_vars

\* The run with the timer of sleep() firing: a loop that awaits the timer is
\* resumed unless the process exits first.
LiveSpec == Spec /\ WF_vars(Wake)

(***************************************************************************)
(* The monitor with submission (part_001): the loop awaits                  *)
(* displayNewTransactions, which awaits sendTransaction for a new           *)
(* transaction that shouldSendTransaction selects.                          *)
(***************************************************************************)
\* displayNewTransactions from entry i on, up to its next await or its end:
\* the entries are displayed one by one (formatTransactionInfo can throw, which
\* the loop's catch block receives: summary, start() returns); at the first
\* entry selected for a submission that can be sent, sendTransaction awaits
\* getFeeData; with no such entry left, displayStatus runs and the loop sleeps.
ContinueDisplay(transactions, i, seen, firstSeen, keys) ==
  \E j \in {NextSendFrom(transactions, i, config)} :
  \E last \in {IF j = 0 THEN Len(transactions) ELSE j} :
  \E thrown \in (IF i > last THEN {FALSE} ELSE BOOLEAN) :
    /\ pc' = IF thrown THEN "stopped" ELSE IF j # 0 THEN "feeData" ELSE "sleep"
    /\ displayIndex' = IF thrown THEN 0 ELSE j
    /\ summary' = IF thrown THEN displaySummary(seen, firstSeen, keys) ELSE summary

\* The outcomes of the request up to what checkMempool reads of a result: the
\* entries of the monitored address.  A response that lists other addresses
\* too, or lacks a sub-pool key, gives the step of the response drawn here
\* that lists the same entries of the monitored address, and nothing else of
\* the snapshot is read once checkMempool has returned.
WalletResponses ==
  {resp \in Responses :
     resp.hasResult =>
       /\ \A p \in {"pending", "queued"} : resp.result.has[p]
       /\ \A k \in DOMAIN resp.result.pending \cup DOMAIN resp.result.queued :
            k[1] = walletAddress}

\* One poll cycle of the monitor with submission, from the moment the request
\* settles to the next await.
SendCycle ==
  /\ cycle < MaxSendCycles
  /\ CheckMempoolStep(WalletResponses)
  /\ ContinueDisplay(newTransactions', 1, seenTransactions', firstSeenTimes',
                     firstSeenKeys')
  /\ UNCHANGED <<config, sendLog, txRequest>>

\* sendTransaction ends for the entry at displayIndex, confirmed or with the
\* error its catch block logged, and displayNewTransactions goes on.
SendFinished(outcome) ==
  /\ sendLog' = Append(sendLog, [hash |-> newTransactions[displayIndex].hash,
                                 outcome |-> outcome])
  /\ txRequest' = NoTxRequest
  /\ ContinueDisplay(newTransactions, displayIndex + 1, seenTransactions,
                     firstSeenTimes, firstSeenKeys)

\* Variant: a rejected confirmation is not caught and reaches the loop's catch
\* block.
WaitSettlesUncaught ==
  /\ pc = "wait"
  /\ \E ok \in BOOLEAN :
       IF ok THEN SendFinished("confirmed")
       ELSE /\ sendLog' = Append(sendLog, [hash |-> newTransactions[displayIndex].hash,
                                          outcome |-> "failed"])
            /\ pc' = "stopped"
            /\ displayIndex' = 0
            /\ txRequest' = NoTxRequest
            /\ summary' = displaySummary(seenTransactions, firstSeenTimes, firstSeenKeys)
  /\ UNCHANGED <<isRunning, seenTransactions, firstSeenTimes, clock, mempoolData,
                 newTransactions, allWalletTransactions, cycle, everObserved,
                 timesReported, failedCycles, totalReturned, walletArg,
                 firstSeenKeys, started, cvars, kvars, config>>

\* provider.getFeeData() settles: with the fee data the transaction is built
\* and wallet.sendTransaction awaited; a rejection (or a throw while the
\* transaction is built) is caught and logged.
FeeDataSettles ==
  /\ pc = "feeData"
  /\ \E ok \in BOOLEAN :
       IF ok
       THEN \E feeGasPrice \in FeeDataGasPrices :
              /\ txRequest' = [built |-> TRUE,
                               gasPrice |-> higherGasPrice(feeGasPrice, config,
                                              newTransactions[displayIndex])]
              /\ pc' = "send"
              /\ UNCHANGED <<displayIndex, summary, sendLog>>
       ELSE SendFinished("failed")
  /\ UNCHANGED <<isRunning, seenTransactions, firstSeenTimes, clock, mempoolData,
                 newTransactions, allWalletTransactions, cycle, everObserved,
                 timesReported, failedCycles, totalReturned, walletArg,
                 firstSeenKeys, started, cvars, kvars, config>>

\* wallet.sendTransaction settles: sent, and the confirmation is awaited, or
\* rejected, which is caught and logged.
SendSettles ==
  /\ pc = "send"
  /\ \E ok \in BOOLEAN :
       IF ok THEN pc' = "wait" /\ UNCHANGED <<displayIndex, summary, sendLog, txRequest>>
       ELSE SendFinished("failed")
  /\ UNCHANGED <<isRunning, seenTransactions, firstSeenTimes, clock, mempoolData,
                 newTransactions, allWalletTransactions, cycle, everObserved,
                 timesReported, failedCycles, totalReturned, walletArg,
                 firstSeenKeys, started, cvars, kvars, config>>

\* txResponse.wait() settles: confirmed, or rejected, which is caught and
\* logged.
WaitSettles ==
  /\ pc = "wait"
  /\ \E ok \in BOOLEAN :
       IF ok THEN SendFinished("confirmed") ELSE SendFinished("failed")
  /\ UNCHANGED <<isRunning, seenTransactions, firstSeenTimes, clock, mempoolData,
                 newTransactions, allWalletTransactions, cycle, everObserved,
                 timesReported, failedCycles, totalReturned, walletArg,
                 firstSeenKeys, started, cvars, kvars, config>>

\* The monitor with submission as constructed by main() from its settings.
\* The wall clock stands at its last reading, so that every new Date() of the
\* run reads the same time: nothing in the submission reads a time, and a run
\* with earlier readings takes the same steps but for the values kept in
\* firstSeenTimes.
SendInit ==
  /\ pc = "new"
  /\ walletArg = walletAddress
  /\ MonitorState(MaxTime)
  /\ config \in SendConfigs
  /\ CompareIdle
  /\ CollectIdle

SendNext ==
  \/ Start \/ SendCycle \/ FeeDataSettles \/ SendSettles \/ WaitSettles
  \/ Wake \/ Sigint

SendSpec == SendInit /\ [][SendNext]_vars

\* The comparator's main() is entered to compare (no --list): the two file
\* arguments and, for a path that names a file, the mempoolData the file holds.
CompareInputs ==
  /\ firstFile \in FileArgs
  /\ secondFile \in FileArgs
  /\ firstMempool \in (IF firstFile = "mempool.json" THEN MempoolResult
                        ELSE {EmptyResult})
  /\ secondMempool \in (IF secondFile = "mempool.json" THEN MempoolResult
                         ELSE {EmptyResult})
  /\ comparison = NoComparison
  /\ compared = FALSE
  /\ cpc = "main"
  /\ reversed = NoComparison
  /\ comparedReversed = FALSE
  /\ comparisonSummary = NoComparisonSummary
  /\ MonitorAbsent
  /\ NoSubmission
  /\ CollectIdle

\* The files given are an earlier and a later collection, in that order.
CompareInit ==
  /\ CompareInputs
  /\ firstTime = (IF firstFile = "mempool.json" THEN EarlierTime ELSE "")
  /\ secondTime = (IF secondFile = "mempool.json" THEN LaterTime ELSE "")

\* main() with both files accepted: one call of compareFiles on the two
\* loaded files.
CompareFiles ==
  /\ cpc = "main"
  /\ FilesAccepted(firstFile, secondFile)
  /\ ~compared
  /\ comparison' = compareFiles(firstMempool, secondMempool)
  /\ comparisonSummary' = SummaryOf(comparison', firstTime, secondTime)
  /\ compared' = TRUE
  /\ cpc' = "done"
  /\ UNCHANGED <<firstMempool, secondMempool, firstFile, secondFile,
                 reversed, comparedReversed, firstTime, secondTime, mvars, svars, kvars>>

\* main() with a path missing or naming no file: the error is printed and the
\* process exits with code 1.
CompareRejected ==
  /\ cpc = "main"
  /\ ~FilesAccepted(firstFile, secondFile)
  /\ cpc' = "failed"
  /\ UNCHANGED <<firstMempool, secondMempool, comparison, compared, firstFile,
                 secondFile, reversed, comparedReversed, firstTime, secondTime,
                 comparisonSummary, mvars, svars, kvars>>

CompareNext == CompareFiles \/ CompareRejected

CompareSpec == CompareInit /\ [][CompareNext]_vars

\* The comparator's main() given files of any two collections, in any order.
StampInit ==
  /\ CompareInputs
  /\ firstTime \in (IF firstFile = "mempool.json" THEN FileTimes ELSE {""})
  /\ secondTime \in (IF secondFile = "mempool.json" THEN FileTimes ELSE {""})

StampSpec == StampInit /\ [][CompareNext]_vars

\* Either tool is run: the monitor's main() or the comparator's main().
MainInit == Init \/ CompareInit

MainNext == Next \/ CompareNext

MainSpec == MainInit /\ [][MainNext]_vars

\* Variant: the comparator keeps the result of its earlier call and returns
\* it for any later call.
CompareReversedCached ==
  /\ cpc = "done"
  /\ ~comparedReversed
  /\ reversed' = comparison
  /\ comparedReversed' = TRUE
  /\ UNCHANGED <<firstMempool, secondMempool, comparison, compared, firstFile,
                 secondFile, cpc, firstTime, secondTime, comparisonSummary,
                 mvars, svars, kvars>>

\* The comparator run again on the same two files, the arguments exchanged.
CompareReversed ==
  /\ cpc = "done"
  /\ ~comparedReversed
  /\ reversed' = compareFiles(secondMempool, firstMempool)
  /\ comparedReversed' = TRUE
  /\ UNCHANGED <<firstMempool, secondMempool, comparison, compared, firstFile,
                 secondFile, cpc, firstTime, secondTime, comparisonSummary,
                 mvars, svars, kvars>>

SwapNext == CompareNext \/ CompareReversed

SwapSpec == CompareInit /\ [][SwapNext]_vars

(***************************************************************************)
(* The collector (mempool-collector.ts) from its main().                    *)
(***************************************************************************)
\* The collector's main() is entered with some --mode argument.
CollectInit ==
  /\ mode \in Modes
  /\ kpc = "main"
  /\ collectorRunning = FALSE
  /\ collectorData = Null
  /\ savedFiles = <<>>
  /\ filesWritten = 0
  /\ collections = 0
  /\ fetchFailures = 0
  /\ collectorClock = 1
  /\ MonitorAbsent
  /\ NoSubmission
  /\ CompareIdle

\* main(): collectOnce calls collectAndSave; startContinuousCollection sets
\* isRunning, registers the SIGINT handler and enters its loop.  Either way
\* collectAndSave awaits its request.
CollectMain ==
  /\ kpc = "main"
  /\ collectorRunning' = (mode = "continuous")
  /\ kpc' = "fetch"
  /\ UNCHANGED <<mode, collectorData, savedFiles, filesWritten, collections,
                 fetchFailures, collectorClock, cvars, mvars, svars>>

\* collectAndSave from the moment its request settles (the collector's
\* makeApiRequest is that of the monitor): without mempoolData it returns;
\* with it, the time is read, the summary and the dataFile are created and
\* writeFileSync is called, whose error (the directory gone, the disk full)
\* is caught and logged, no file being written.  Then collectOnce returns or
\* the loop sleeps.
CollectAndSave ==
  /\ kpc = "fetch"
  /\ collections < MaxCollections
  /\ \E response \in Responses :
     \E data \in {makeApiRequest(response)} :
       /\ collectorData' = data
       /\ fetchFailures' = IF data.isNull THEN fetchFailures + 1 ELSE fetchFailures
       /\ IF data.isNull
          THEN savedFiles' = <<>> /\ UNCHANGED <<filesWritten, collectorClock>>
          ELSE \E now \in collectorClock..Len(CollectTimes) :
               \E written \in BOOLEAN :
                 /\ collectorClock' = now
                 /\ savedFiles' = IF written
                                  THEN << DataFile(data.value, CollectTimes[now]) >>
                                  ELSE <<>>
                 /\ filesWritten' = IF written THEN filesWritten + 1
                                    ELSE filesWritten
  /\ collections' = collections + 1
  /\ kpc' = IF mode = "once" THEN "done" ELSE "sleep"
  /\ UNCHANGED <<mode, collectorRunning, cvars, mvars, svars>>

\* The timer of sleep(intervalMs) fires and the loop test finds isRunning
\* set: the next collectAndSave (the previous one's mempoolData and dataFile
\* are gone) awaits its request.
CollectWake ==
  /\ kpc = "sleep"
  /\ collectorRunning
  /\ kpc' = "fetch"
  /\ collectorData' = Null
  /\ savedFiles' = <<>>
  /\ UNCHANGED <<mode, collectorRunning, filesWritten, collections,
                 fetchFailures, collectorClock, cvars, mvars, svars>>

\* The SIGINT handler of startContinuousCollection, run while the loop
\* awaits: isRunning is cleared and the process exits.
CollectSigint ==
  /\ kpc \in {"fetch", "sleep"}
  /\ mode = "continuous"
  /\ collectorRunning' = FALSE
  /\ kpc' = "exited"
  /\ collectorData' = Null
  /\ savedFiles' = <<>>
  /\ UNCHANGED <<mode, filesWritten, collections, fetchFailures,
                 collectorClock, cvars, mvars, svars>>

CollectNext == CollectMain \/ CollectAndSave \/ CollectWake \/ CollectSigint

CollectSpec == CollectInit /\ [][CollectNext]_vars

\* The collector's run with the timer of sleep() firing.
CollectLiveSpec == CollectSpec /\ WF_vars(CollectWake)

(***************************************************************************)
(* Properties of the monitor, checked under Spec.                           *)
(***************************************************************************)
\* C1: over a run, every hash some cycle's snapshot listed under the
\* monitored address has been returned in newTransactions by exactly one
\* cycle, and a hash never listed by none.  As this holds after every step,
\* the one cycle is the cycle of the first observation and no later cycle
\* reports the hash again.
C1_NewExactlyOnce ==
  \A h \in Hashes : timesReported[h] = IF h \in everObserved THEN 1 ELSE 0

\* A cycle lists again, in the queued sub-pool, a hash reported by an earlier
\* cycle, and does not report it.
C1_Witness ==
  /\ pc = "sleep"
  /\ cycle = 3
  /\ \E i \in 1..Len(allWalletTransactions) :
       /\ allWalletTransactions[i].poolType = "queued"
       /\ allWalletTransactions[i].hash \notin SeqHashes(newTransactions)
       /\ timesReported[allWalletTransactions[i].hash] = 1

\* The step of Cycle: the request of a cycle settles.
CycleStep == pc = "fetch" /\ pc' \in {"sleep", "stopped"}

\* C2: in a cycle whose request succeeds, the hashes of newTransactions are
\* exactly the hashes the snapshot lists under the monitored address, in
\* pending or queued, that were not in seenTransactions when the cycle began.
C2_NewIsObservedMinusSeen ==
  [][(CycleStep /\ ~mempoolData'.isNull) =>
       SeqHashes(newTransactions') =
         WalletHashes(mempoolData'.value) \ seenTransactions]_vars

\* A successful cycle after a failed one reports a hash new while other hashes
\* are already seen.
C2_Witness ==
  /\ pc = "sleep"
  /\ ~mempoolData.isNull
  /\ failedCycles >= 1
  /\ newTransactions # <<>>
  /\ seenTransactions # SeqHashes(newTransactions)

\* C3: a cycle whose request fails (makeApiRequest returns null) returns two
\* empty sequences and leaves seenTransactions and firstSeenTimes as they were.
C3_FailedCycleChangesNothing ==
  [][(CycleStep /\ mempoolData'.isNull) =>
       /\ newTransactions' = <<>>
       /\ allWalletTransactions' = <<>>
       /\ seenTransactions' = seenTransactions
       /\ firstSeenTimes' = firstSeenTimes]_vars

\* A cycle has failed after earlier cycles recorded hashes.
C3_Witness ==
  /\ pc = "sleep"
  /\ mempoolData.isNull
  /\ failedCycles = 1
  /\ Cardinality(seenTransactions) >= 2

\* C4: no step of the run removes a hash from seenTransactions.
C4_SeenNeverShrinks == [][seenTransactions \subseteq seenTransactions']_vars

\* The run has ended, by SIGINT or by an error, after cycles that recorded
\* hashes, one of them failed.
C4_Witness ==
  /\ pc \in {"exited", "stopped"}
  /\ failedCycles >= 1
  /\ Cardinality(seenTransactions) >= 2

\* C5: once firstSeenTimes has an entry for a hash, no step changes or removes
\* it.
C5_FirstSeenWriteOnce ==
  [][\A h \in DOMAIN firstSeenTimes :
       h \in DOMAIN firstSeenTimes' /\ firstSeenTimes'[h] = firstSeenTimes[h]]_vars

\* A later cycle, at a later clock reading, lists in the queued sub-pool a
\* hash recorded earlier: its recorded time is still the earlier one.
C5_Witness ==
  /\ pc = "sleep"
  /\ \E i \in 1..Len(allWalletTransactions) :
       /\ allWalletTransactions[i].poolType = "queued"
       /\ allWalletTransactions[i].hash \notin SeqHashes(newTransactions)
       /\ firstSeenTimes[allWalletTransactions[i].hash] < clock

\* C6: a hash is in seenTransactions exactly when firstSeenTimes has an entry
\* for it, in every state of the run.
C6_SeenIffFirstSeen == seenTransactions = DOMAIN firstSeenTimes

\* After a successful and a failed cycle both collections hold two hashes.
C6_Witness ==
  /\ pc = "sleep"
  /\ failedCycles >= 1
  /\ Cardinality(seenTransactions) = 2
  /\ Cardinality(DOMAIN firstSeenTimes) = 2

(***************************************************************************)
(* Properties of the comparator, checked under CompareSpec.                 *)
(***************************************************************************)
PoolNames == {"pending", "queued"}

\* The (sub-pool, key) places of a snapshot, read off the snapshot itself.
Places(data) ==
  {pk \in PoolNames \X Keys : pk[2] \in DOMAIN PoolData(data, pk[1])}

HashAt(data, pk) == PoolData(data, pk[1])[pk[2]]

HashesIn(data) == {HashAt(data, pk) : pk \in Places(data)}

\* The sub-pools in which a snapshot holds a hash.
PoolTypesOf(data, h) ==
  {pk[1] : pk \in {q \in Places(data) : HashAt(data, q) = h}}

\* No hash occurs twice within the snapshot.
UniqueHashes(data) ==
  \A p \in Places(data) : \A q \in Places(data) :
    HashAt(data, p) = HashAt(data, q) => p = q

CategoryNames == {"disappearedTransactions", "newTransactions", "stillPending",
                  "movedToQueued", "movedToPending"}

FirstCategoryNames == CategoryNames \ {"newTransactions"}

CountHash(transactions, h) ==
  Cardinality({i \in 1..Len(transactions) : transactions[i].hash = h})

CountEntry(transactions, e) ==
  Cardinality({i \in 1..Len(transactions) : transactions[i] = e})

\* How often the four categories filled from the first snapshot hold what
\* Count(transactions) counts.
FirstSum(Count(_)) ==
  Count(comparison.disappearedTransactions) + Count(comparison.stillPending)
    + Count(comparison.movedToQueued) + Count(comparison.movedToPending)

\* How often a hash occurs in the five categories together.
TotalCount(h) ==
  FirstSum(LAMBDA txs : CountHash(txs, h)) + CountHash(comparison.newTransactions, h)

\* The categories that hold a hash.
CategoriesOf(h) == {c \in CategoryNames : h \in SeqHashes(comparison[c])}

\* The location entry of one place of a snapshot.
EntryAt(data, pk) ==
  [hash |-> HashAt(data, pk), nonce |-> pk[2][2], poolType |-> pk[1],
   address |-> pk[2][1]]

\* The five categories are pairwise disjoint and hold every hash of either
\* snapshot exactly once.
HashPartition ==
  /\ \A c \in CategoryNames : \A d \in CategoryNames \ {c} :
       SeqHashes(comparison[c]) \cap SeqHashes(comparison[d]) = {}
  /\ \A h \in HashesIn(firstMempool) \cup HashesIn(secondMempool) :
       TotalCount(h) = 1

\* C7 as stated: for any two snapshots, with no assumption that a hash occurs
\* only once inside a snapshot, the five categories are pairwise disjoint and
\* each hash of either snapshot occurs in exactly one category, exactly once.
C7_HashPartitionAnySnapshots == compared => HashPartition

\* C7 as amended: for any two snapshots every location entry of the first
\* snapshot occurs exactly once in disappeared, stillSamePool, movedToQueued
\* and movedToPending together and not in new, and every location entry of the
\* second snapshot occurs in new exactly once if its hash is absent from the
\* first snapshot and not at all otherwise; when no hash occurs twice within
\* either snapshot, the five categories are pairwise disjoint and hold each
\* hash of either snapshot exactly once.
C7_EntryPartition ==
  compared =>
    /\ \A pk \in Places(firstMempool) :
         /\ FirstSum(LAMBDA txs : CountEntry(txs, EntryAt(firstMempool, pk))) = 1
         /\ CountEntry(comparison.newTransactions, EntryAt(firstMempool, pk)) = 0
    /\ FirstSum(LAMBDA txs : Len(txs)) = Cardinality(Places(firstMempool))
    /\ \A pk \in Places(secondMempool) :
         CountEntry(comparison.newTransactions, EntryAt(secondMempool, pk))
           = IF HashAt(secondMempool, pk) \in HashesIn(firstMempool) THEN 0 ELSE 1
    /\ Len(comparison.newTransactions)
         = Cardinality({pk \in Places(secondMempool) :
                          HashAt(secondMempool, pk) \notin HashesIn(firstMempool)})
    /\ (UniqueHashes(firstMempool) /\ UniqueHashes(secondMempool)) => HashPartition

\* Two snapshots without repeated hashes, one hash moved to queued, one new.
C7_Witness ==
  /\ compared
  /\ UniqueHashes(firstMempool) /\ UniqueHashes(secondMempool)
  /\ Len(comparison.movedToQueued) = 1
  /\ Len(comparison.newTransactions) = 1

\* C8: the hashes of stillSamePool, movedToQueued, movedToPending and
\* disappeared together are exactly the hashes of the first snapshot, and the
\* hashes of new together with the hashes present in both snapshots are
\* exactly the hashes of the second snapshot.
C8_UnionIdentities ==
  compared =>
    /\ UNION {SeqHashes(comparison[c]) : c \in FirstCategoryNames}
         = HashesIn(firstMempool)
    /\ SeqHashes(comparison.newTransactions)
         \cup (HashesIn(firstMempool) \cap HashesIn(secondMempool))
         = HashesIn(secondMempool)

\* A comparison in which a hash moved from queued to pending, the second
\* snapshot holding a hash twice.
C8_Witness ==
  /\ compared
  /\ comparison.movedToPending # <<>>
  /\ ~UniqueHashes(secondMempool)

\* C9: a hash of the first snapshot that is in neither sub-pool of the second
\* is in disappeared and in no other category, and every hash of disappeared
\* is in the first snapshot and not in the second.
C9_Disappeared ==
  compared =>
    /\ \A h \in HashesIn(firstMempool) \ HashesIn(secondMempool) :
         CategoriesOf(h) = {"disappearedTransactions"}
    /\ SeqHashes(comparison.disappearedTransactions)
         \subseteq HashesIn(firstMempool) \ HashesIn(secondMempool)

\* Hash 0xaa is pending for address 0x1, nonce 5, in the first snapshot and
\* nowhere in the second, which holds another hash in its queued sub-pool.
C9_Witness ==
  /\ compared
  /\ <<"0x1", "5">> \in DOMAIN PoolData(firstMempool, "pending")
  /\ PoolData(firstMempool, "pending")[<<"0x1", "5">>] = "0xaa"
  /\ "0xaa" \notin HashesIn(secondMempool)
  /\ DOMAIN PoolData(secondMempool, "queued") # {}
  /\ CategoriesOf("0xaa") = {"disappearedTransactions"}

\* The category of a pool-type transition.
Transition(p1, p2) ==
  IF p1 = p2 THEN "stillPending"
  ELSE IF p1 = "pending" THEN "movedToQueued" ELSE "movedToPending"

C11_NewIffOnlyInSecond ==
  compared =>
    \A h \in Hashes :
      h \in SeqHashes(comparison.newTransactions)
        <=> (h \in HashesIn(secondMempool) /\ h \notin HashesIn(firstMempool))

\* The second snapshot holds one hash the first lacks and one hash the first
\* holds in the other sub-pool: the former is new, the latter is not.
C11_Witness ==
  /\ compared
  /\ \E h \in Hashes : \E g \in Hashes :
       /\ h \in HashesIn(secondMempool) \ HashesIn(firstMempool)
       /\ h \in SeqHashes(comparison.newTransactions)
       /\ PoolTypesOf(firstMempool, g) = {"pending"}
       /\ PoolTypesOf(secondMempool, g) = {"queued"}
       /\ g \notin SeqHashes(comparison.newTransactions)

\* C21: extractAllTransactions returns, for either snapshot, exactly one entry
\* for every (address, nonce) key of the pending sub-pool and one for every
\* key of the queued sub-pool, each carrying the hash held there, its nonce,
\* its sub-pool and its owner address, and nothing else; entries are not
\* deduplicated, so a hash held under two different keys has both entries in
\* the output.
C21_OneEntryPerKey ==
  compared =>
    \A data \in {firstMempool, secondMempool} :
    \A transactions \in {extractAllTransactions(data)} :
    \A places \in {Places(data)} :
         /\ Len(transactions) = Cardinality(places)
         /\ \A pk \in places :
              CountEntry(transactions, EntryAt(data, pk)) = 1
         /\ \A i \in 1..Len(transactions) :
              \E pk \in places : transactions[i] = EntryAt(data, pk)
         /\ \A h \in {HashAt(data, pk) : pk \in places} :
              CountHash(transactions, h)
                = Cardinality({pk \in places : HashAt(data, pk) = h})

\* The first snapshot holds one hash under two addresses of its pending
\* sub-pool, the second holds one hash at the same key of both sub-pools: the
\* extraction of each has two entries with that hash.
C21_Witness ==
  /\ compared
  /\ \E h \in Hashes :
       /\ <<"pending", <<"0x1", "5">>>> \in Places(firstMempool)
       /\ <<"pending", <<"0x2", "5">>>> \in Places(firstMempool)
       /\ HashAt(firstMempool, <<"pending", <<"0x1", "5">>>>) = h
       /\ HashAt(firstMempool, <<"pending", <<"0x2", "5">>>>) = h
       /\ CountHash(extractAllTransactions(firstMempool), h) = 2
  /\ \E g \in Hashes :
       /\ <<"pending", <<"0x1", "6">>>> \in Places(secondMempool)
       /\ <<"queued", <<"0x1", "6">>>> \in Places(secondMempool)
       /\ HashAt(secondMempool, <<"pending", <<"0x1", "6">>>>) = g
       /\ HashAt(secondMempool, <<"queued", <<"0x1", "6">>>>) = g
       /\ CountHash(extractAllTransactions(secondMempool), g) = 2

\* C24 (checked under StampSpec): the counts of the result's summary are the
\* lengths of the result's five arrays, totalDisappeared, totalNew,
\* totalStillPending, totalMovedToQueued and totalMovedToPending each for its
\* array, and firstFileTime and secondFileTime are the timestamps of the
\* first and of the second file, unchanged and in that order.
C24_SummaryCountsAndTimes ==
  compared =>
    /\ comparisonSummary.totalDisappeared = Len(comparison.disappearedTransactions)
    /\ comparisonSummary.totalNew = Len(comparison.newTransactions)
    /\ comparisonSummary.totalStillPending = Len(comparison.stillPending)
    /\ comparisonSummary.totalMovedToQueued = Len(comparison.movedToQueued)
    /\ comparisonSummary.totalMovedToPending = Len(comparison.movedToPending)
    /\ comparisonSummary.firstFileTime = firstTime
    /\ comparisonSummary.secondFileTime = secondTime

\* The first file is the later collection: the summary counts one
\* disappeared, one moved to queued and one new entry and gives the later
\* timestamp first.
C24_Witness ==
  /\ compared
  /\ comparisonSummary.totalDisappeared = 1
  /\ comparisonSummary.totalMovedToQueued = 1
  /\ comparisonSummary.totalNew = 1
  /\ comparisonSummary.totalStillPending = 0
  /\ comparisonSummary.firstFileTime = LaterTime
  /\ comparisonSummary.secondFileTime = EarlierTime

\* The entry of a hash that comes last in a sequence of entries.
LastEntry(transactions, h) ==
  transactions[CHOOSE i \in 1..Len(transactions) :
                 /\ transactions[i].hash = h
                 /\ \A j \in (i + 1)..Len(transactions) : transactions[j].hash # h]

\* The sub-pool of the last location of a hash in extraction order, all
\* pending entries coming before all queued entries.
LastPoolOf(data, h) ==
  IF \E k \in DOMAIN PoolData(data, "queued") : PoolData(data, "queued")[k] = h
  THEN "queued" ELSE "pending"

\* C26: the hash lookup built for a snapshot maps every hash the snapshot
\* holds to the location that comes last in extraction order (all pending
\* entries before all queued entries), also when the hash occurs more than
\* once; and an entry of the first snapshot whose hash the second snapshot
\* holds is put in the one category of the transition from its own sub-pool
\* to the sub-pool of that last location of the second snapshot.
C26_LastLocationWins ==
  compared =>
    /\ \A data \in {firstMempool, secondMempool} :
       \A transactions \in {extractAllTransactions(data)} :
       \A map \in {TxMap(transactions)} :
         /\ DOMAIN map = SeqHashes(transactions)
         /\ \A h \in DOMAIN map :
              /\ map[h] = LastEntry(transactions, h)
              /\ map[h].poolType = LastPoolOf(data, h)
    /\ \A held \in {HashesIn(secondMempool)} :
       \A pk \in Places(firstMempool) :
       \A e \in {EntryAt(firstMempool, pk)} :
         e.hash \in held =>
           \A to \in {Transition(e.poolType, LastPoolOf(secondMempool, e.hash))} :
           \A c \in FirstCategoryNames :
             CountEntry(comparison[c], e) = IF c = to THEN 1 ELSE 0

\* The second snapshot holds a hash in its pending and in its queued
\* sub-pool, the first holds it pending: the entry of the first is in
\* movedToQueued, the queued location being the last.
C26_Witness ==
  /\ compared
  /\ \E h \in Hashes :
       /\ PoolTypesOf(secondMempool, h) = {"pending", "queued"}
       /\ PoolTypesOf(firstMempool, h) = {"pending"}
       /\ h \in SeqHashes(comparison.movedToQueued)
       /\ h \notin SeqHashes(comparison.stillPending)

\* The location entries of a snapshot, read off the snapshot itself.
EntriesIn(data) == {EntryAt(data, pk) : pk \in Places(data)}

\* C35 (checked under SwapSpec): every entry of disappeared, stillSamePool,
\* movedToQueued and movedToPending carries the location (sub-pool, address,
\* nonce) its transaction has in the first snapshot, and every entry of new
\* the location it has in the second; so every entry of movedToQueued has the
\* sub-pool pending and every entry of movedToPending the sub-pool queued,
\* while the second snapshot holds the hash in the other sub-pool.
C35_EntriesCarryOwnLocation ==
  compared =>
    \A firstEntries \in {EntriesIn(firstMempool)} :
    \A secondEntries \in {EntriesIn(secondMempool)} :
      /\ \A c \in FirstCategoryNames : \A i \in 1..Len(comparison[c]) :
           comparison[c][i] \in firstEntries
      /\ \A i \in 1..Len(comparison.newTransactions) :
           comparison.newTransactions[i] \in secondEntries
      /\ \A i \in 1..Len(comparison.movedToQueued) :
           /\ comparison.movedToQueued[i].poolType = "pending"
           /\ \E e \in secondEntries :
                e.hash = comparison.movedToQueued[i].hash /\ e.poolType = "queued"
      /\ \A i \in 1..Len(comparison.movedToPending) :
           /\ comparison.movedToPending[i].poolType = "queued"
           /\ \E e \in secondEntries :
                e.hash = comparison.movedToPending[i].hash /\ e.poolType = "pending"

\* One hash is pending under address 0x1 in the first snapshot and queued
\* under address 0x2 in the second, another is queued in the first and
\* pending in the second: each moved entry carries its first location.
C35_Witness ==
  /\ compared
  /\ Len(comparison.movedToQueued) = 1
  /\ Len(comparison.movedToPending) = 1
  /\ comparison.movedToQueued[1].address = "0x1"
  /\ comparison.movedToQueued[1].poolType = "pending"
  /\ \E pk \in Places(secondMempool) :
       /\ HashAt(secondMempool, pk) = comparison.movedToQueued[1].hash
       /\ pk[1] = "queued"
       /\ pk[2][1] = "0x2"
  /\ comparison.movedToPending[1].poolType = "queued"

(***************************************************************************)
(* Further properties of the monitor, checked under Spec.                   *)
(***************************************************************************)
\* The (sub-pool, nonce) places a snapshot lists under the monitored address.
WalletPlaces(data) ==
  {pk \in Places(data) : pk[2][1] = walletAddress}

\* The entry checkMempool builds for one place.
WalletEntryAt(data, pk) ==
  [hash |-> HashAt(data, pk), nonce |-> pk[2][2], poolType |-> pk[1]]

\* C13: in a cycle whose request succeeds, allWalletTransactions holds exactly
\* one entry for every (sub-pool, nonce) entry the snapshot lists under the
\* monitored address, the entries whose hash was already in seenTransactions
\* included; such a hash leaves seenTransactions and its firstSeenTimes entry
\* as they were, seenTransactions gaining nothing but the listed hashes.
C13_AllCountsEveryListedEntry ==
  [][(CycleStep /\ ~mempoolData'.isNull) =>
       /\ Len(allWalletTransactions') = Cardinality(WalletPlaces(mempoolData'.value))
       /\ \A pk \in WalletPlaces(mempoolData'.value) :
            CountEntry(allWalletTransactions', WalletEntryAt(mempoolData'.value, pk)) = 1
       /\ seenTransactions' = seenTransactions \cup WalletHashes(mempoolData'.value)
       /\ \A h \in WalletHashes(mempoolData'.value) \cap seenTransactions :
            firstSeenTimes'[h] = firstSeenTimes[h]
       /\ (WalletHashes(mempoolData'.value) \subseteq seenTransactions) =>
            (seenTransactions' = seenTransactions /\ firstSeenTimes' = firstSeenTimes)]_vars

\* The first cycle listed two hashes, the second lists one of them again and a
\* third hash: both cycles have two entries in allWalletTransactions, the
\* second one new transaction.
C13_Witness ==
  /\ pc = "sleep"
  /\ cycle = 2
  /\ failedCycles = 0
  /\ Len(allWalletTransactions) = 2
  /\ Len(newTransactions) = 1
  /\ Cardinality(seenTransactions) = 3

\* C22: checkMempool is restricted to the monitored address.  In a cycle
\* whose request succeeds every entry of allWalletTransactions and of
\* newTransactions is an entry the snapshot lists under the monitored address,
\* a hash the snapshot does not list under the monitored address (listed
\* under another address or not at all) enters neither seenTransactions nor
\* firstSeenTimes, and the entries of the monitored address in the pending
\* and in the queued sub-pool are all walked.
C22_OnlyMonitoredAddress ==
  [][(CycleStep /\ ~mempoolData'.isNull) =>
       /\ \A i \in 1..Len(allWalletTransactions') :
            \E pk \in WalletPlaces(mempoolData'.value) :
              allWalletTransactions'[i] = WalletEntryAt(mempoolData'.value, pk)
       /\ \A i \in 1..Len(newTransactions') :
            \E pk \in WalletPlaces(mempoolData'.value) :
              newTransactions'[i] = WalletEntryAt(mempoolData'.value, pk)
       /\ \A h \in Hashes \ WalletHashes(mempoolData'.value) :
            /\ h \in seenTransactions' <=> h \in seenTransactions
            /\ h \in DOMAIN firstSeenTimes' <=> h \in DOMAIN firstSeenTimes
       /\ \A pk \in WalletPlaces(mempoolData'.value) :
            /\ \E i \in 1..Len(allWalletTransactions') :
                 allWalletTransactions'[i] = WalletEntryAt(mempoolData'.value, pk)
            /\ HashAt(mempoolData'.value, pk) \in seenTransactions']_vars

\* A cycle's snapshot lists, in its pending sub-pool, a hash under another
\* address and, in its queued sub-pool, another hash under the monitored
\* address: the latter is new, the former is not recorded.
C22_Witness ==
  /\ pc = "sleep"
  /\ ~mempoolData.isNull
  /\ <<"pending", <<"0x2", "5">>>> \in Places(mempoolData.value)
  /\ HashAt(mempoolData.value, <<"pending", <<"0x2", "5">>>>) \notin seenTransactions
  /\ Len(newTransactions) = 1
  /\ newTransactions[1].poolType = "queued"
  /\ Len(allWalletTransactions) = 1

\* The position of a nonce key in Object.entries order.
NonceIndex(nonce) == CHOOSE i \in 1..Len(NonceSeq) : NonceSeq[i] = nonce

\* Every pending entry precedes every queued entry, and the entries of one
\* sub-pool are in the order Object.entries gives their nonce keys.
InPoolIterationOrder(transactions) ==
  \A i \in 1..Len(transactions) : \A j \in (i + 1)..Len(transactions) :
    /\ ~(transactions[i].poolType = "queued" /\ transactions[j].poolType = "pending")
    /\ transactions[i].poolType = transactions[j].poolType
         => NonceIndex(transactions[i].nonce) < NonceIndex(transactions[j].nonce)

\* sub is got from transactions by leaving entries out, the order kept.
IsSubsequence(sub, transactions) ==
  \E f \in [1..Len(sub) -> 1..Len(transactions)] :
    /\ \A i \in 1..Len(sub) : sub[i] = transactions[f[i]]
    /\ \A i \in 1..Len(sub) : \A j \in (i + 1)..Len(sub) : f[i] < f[j]

\* C23: in the allWalletTransactions and the newTransactions a cycle returns,
\* every entry of the pending sub-pool precedes every entry of the queued
\* sub-pool and nothing is sorted further: the entries of a sub-pool keep the
\* iteration order of the snapshot's keys, whatever their hashes and
\* first-seen times, and newTransactions keeps the order its entries have in
\* allWalletTransactions.
C23_PendingBeforeQueued ==
  (pc \in {"sleep", "stopped"} /\ ~mempoolData.isNull) =>
    /\ InPoolIterationOrder(allWalletTransactions)
    /\ InPoolIterationOrder(newTransactions)
    /\ IsSubsequence(newTransactions, allWalletTransactions)

\* A cycle returned, both new, the pending entry of nonce 6 with hash 0xcc
\* before the queued entry of nonce 5 with hash 0xaa: the order is that of
\* the sub-pools, not of the hashes or the nonces.
C23_Witness ==
  /\ pc = "sleep"
  /\ Len(allWalletTransactions) = 2
  /\ allWalletTransactions[1] = [hash |-> "0xcc", nonce |-> "6", poolType |-> "pending"]
  /\ allWalletTransactions[2] = [hash |-> "0xaa", nonce |-> "5", poolType |-> "queued"]
  /\ newTransactions = allWalletTransactions

\* C31: at the end of every cycle, and in every other state of the run,
\* seenTransactions is the union of the hashes of all the newTransactions
\* returned so far, and its size is the number of entries those
\* newTransactions held together; the summary's count of unique
\* transactions is that number.
C31_SeenIsAllReturned ==
  /\ seenTransactions = {h \in Hashes : timesReported[h] > 0}
  /\ Cardinality(seenTransactions) = totalReturned
  /\ summary.displayed => summary.total = totalReturned

\* Three cycles returned one new transaction each, the third listing a hash
\* of an earlier cycle again beside its new one.
C31_Witness ==
  /\ pc = "sleep"
  /\ cycle = 3
  /\ failedCycles = 0
  /\ totalReturned = 3
  /\ Len(newTransactions) = 1
  /\ Len(allWalletTransactions) = 2
  /\ \A h \in Hashes : timesReported[h] = 1

\* The entries of a hash in a sequence of entries.
EntriesOf(transactions, h) ==
  {transactions[i] : i \in {j \in 1..Len(transactions) : transactions[j].hash = h}}

\* C32: in every cycle newTransactions is a subsequence of
\* allWalletTransactions and holds no hash twice.  A hash the snapshot lists
\* under the monitored address in both the pending and the queued sub-pool
\* has one entry in allWalletTransactions for each of its places, two at
\* least, and, when the hash was not seen before the cycle, one entry in
\* newTransactions, which carries a pending location; a hash seen before has
\* none.
C32_NewOncePendingFirst ==
  [][(CycleStep /\ ~mempoolData'.isNull) =>
       /\ IsSubsequence(newTransactions', allWalletTransactions')
       /\ \A i \in 1..Len(newTransactions') :
          \A j \in (i + 1)..Len(newTransactions') :
            newTransactions'[i].hash # newTransactions'[j].hash
       /\ \A places \in {WalletPlaces(mempoolData'.value)} :
          \A h \in {HashAt(mempoolData'.value, q) :
                      q \in {r \in places : r[1] = "queued"}} :
          \A held \in {{q \in places : HashAt(mempoolData'.value, q) = h}} :
            (\E q \in held : q[1] = "pending") =>
              /\ CountHash(allWalletTransactions', h) = Cardinality(held)
              /\ Cardinality(held) >= 2
              /\ CountHash(newTransactions', h)
                   = IF h \in seenTransactions THEN 0 ELSE 1
              /\ \A e \in EntriesOf(newTransactions', h) : e.poolType = "pending"]_vars

\* A cycle's snapshot lists one hash under the monitored address at nonce 5
\* of the pending and at nonce 6 of the queued sub-pool: two entries in
\* allWalletTransactions, one new transaction, the pending one.
C32_Witness ==
  /\ pc = "sleep"
  /\ cycle = 2
  /\ Len(allWalletTransactions) = 2
  /\ allWalletTransactions[1].hash = allWalletTransactions[2].hash
  /\ allWalletTransactions[1].poolType = "pending"
  /\ allWalletTransactions[2].poolType = "queued"
  /\ allWalletTransactions[2].nonce = "6"
  /\ newTransactions = << allWalletTransactions[1] >>

\* The position of a hash among the keys of firstSeenTimes in insertion order.
KeyIndex(h) == CHOOSE i \in 1..Len(firstSeenKeys) : firstSeenKeys[i] = h

\* C34: the clock never going back, a hash first reported in an earlier
\* cycle has a first-seen time less than or equal to that of any hash first
\* reported in a later cycle: the times a cycle records are not below any
\* time recorded before it, and its hashes are entered after all earlier
\* ones.  So the timeline of the summary, sorted by ascending time, lists a
\* hash entered later (any hash of a later cycle) before a hash entered
\* earlier only when their times are equal.
C34_EarlierCycleEarlierTime ==
  /\ [][CycleStep =>
          /\ \A h \in DOMAIN firstSeenTimes : \A g \in SeqHashes(newTransactions') :
               /\ g \notin DOMAIN firstSeenTimes
               /\ firstSeenTimes'[h] <= firstSeenTimes'[g]
          /\ firstSeenKeys'
               = firstSeenKeys
                   \o [i \in 1..Len(newTransactions') |-> newTransactions'[i].hash]]_vars
  /\ [](\A i \in 1..Len(firstSeenKeys) : \A j \in (i + 1)..Len(firstSeenKeys) :
          firstSeenTimes[firstSeenKeys[i]] <= firstSeenTimes[firstSeenKeys[j]])
  /\ [](summary.displayed =>
          \A i \in 1..Len(summary.timeline) : \A j \in (i + 1)..Len(summary.timeline) :
            KeyIndex(summary.timeline[i].hash) > KeyIndex(summary.timeline[j].hash)
              => summary.timeline[i].time = summary.timeline[j].time)

\* The three cycles of a run reported three hashes, each once, two at the
\* same reading of the clock and the third at a later one; the run has exited
\* on the signal and the timeline lists them in the order they were entered.
C34_Witness ==
  /\ pc = "exited"
  /\ cycle = 3
  /\ \A h \in Hashes : timesReported[h] = 1
  /\ Len(summary.timeline) = 3
  /\ summary.timeline[1].time = summary.timeline[2].time
  /\ summary.timeline[2].time < summary.timeline[3].time
  /\ firstSeenKeys = [i \in 1..3 |-> summary.timeline[i].hash]

(***************************************************************************)
(* Properties of the comparator run both ways, checked under SwapSpec.      *)
(***************************************************************************)
\* Every hash of the snapshot is held in one sub-pool only.
SinglePool(data) ==
  \A h \in HashesIn(data) : Cardinality(PoolTypesOf(data, h)) = 1

\* disappeared and new exchange when the files are exchanged.
SwapsPresence ==
  /\ SeqHashes(comparison.disappearedTransactions)
       = SeqHashes(reversed.newTransactions)
  /\ SeqHashes(comparison.newTransactions)
       = SeqHashes(reversed.disappearedTransactions)

\* The two moved categories exchange and stillPending stays.
SwapsTransitions ==
  /\ SeqHashes(comparison.movedToQueued) = SeqHashes(reversed.movedToPending)
  /\ SeqHashes(comparison.movedToPending) = SeqHashes(reversed.movedToQueued)
  /\ SeqHashes(comparison.stillPending) = SeqHashes(reversed.stillPending)

\* C12 as stated: for any two snapshots A and B, as sets of hashes,
\* disappeared(A,B) = new(B,A), new(A,B) = disappeared(B,A),
\* movedToQueued(A,B) = movedToPending(B,A), movedToPending(A,B) =
\* movedToQueued(B,A) and stillPending(A,B) = stillPending(B,A).
C12_SwapSymmetryAnySnapshots ==
  comparedReversed => (SwapsPresence /\ SwapsTransitions)

\* C12 as amended: for any two snapshots disappeared(A,B) = new(B,A) and
\* new(A,B) = disappeared(B,A) as sets of hashes; when in each snapshot every
\* hash is held in one sub-pool only, also movedToQueued(A,B) =
\* movedToPending(B,A), movedToPending(A,B) = movedToQueued(B,A) and
\* stillPending(A,B) = stillPending(B,A).
C12_SwapSymmetry ==
  comparedReversed =>
    /\ SwapsPresence
    /\ (SinglePool(firstMempool) /\ SinglePool(secondMempool)) => SwapsTransitions

\* Both ways compared: one hash pending in the first snapshot is queued in the
\* second, another hash of the first is gone from the second.
C12_Witness ==
  /\ comparedReversed
  /\ SinglePool(firstMempool) /\ SinglePool(secondMempool)
  /\ comparison.movedToQueued # <<>>
  /\ reversed.movedToPending # <<>>
  /\ comparison.disappearedTransactions # <<>>
  /\ reversed.newTransactions # <<>>

C14_StopOnlyAtBoundary == pc = "exited" => started = cycle

\* C15: when the run has exited on the stop signal, a summary has been
\* displayed that gives the number of unique hashes seen and lists every hash
\* of firstSeenTimes exactly once, with its first-seen time, in ascending
\* order of that time.
C15_SummaryOnCancellation ==
  pc = "exited" =>
    /\ summary.displayed
    /\ summary.total = Cardinality(seenTransactions)
    /\ Len(summary.timeline) = Cardinality(DOMAIN firstSeenTimes)
    /\ \A h \in DOMAIN firstSeenTimes :
         Cardinality({i \in 1..Len(summary.timeline) :
                        summary.timeline[i]
                          = [hash |-> h, time |-> firstSeenTimes[h]]}) = 1
    /\ \A i \in 1..Len(summary.timeline) : \A j \in i..Len(summary.timeline) :
         summary.timeline[i].time <= summary.timeline[j].time

\* The run exited on the signal after three hashes were seen, at two
\* different times: the summary counts three and lists them oldest first.
C15_Witness ==
  /\ pc = "exited"
  /\ summary.total = 3
  /\ Len(summary.timeline) = 3
  /\ summary.timeline[1].time < summary.timeline[3].time

\* C16: cycles are strictly sequential: a call of checkMempool begins only
\* when every earlier call's cycle has completed its processing, so that at
\* most one cycle is in progress in any state, and seenTransactions and
\* firstSeenTimes are written only by the step that completes the one cycle
\* in progress.
C16_CyclesSequential ==
  [][/\ started - cycle \in {0, 1}
     /\ (started' # started) => (started = cycle /\ started' = started + 1)
     /\ (seenTransactions' # seenTransactions \/ firstSeenTimes' # firstSeenTimes)
          => (started = cycle + 1 /\ cycle' = cycle + 1 /\ started' = started)]_vars

\* The third call of checkMempool has begun after two cycles completed, one
\* of which recorded a hash at a later clock reading.
C16_Witness ==
  /\ pc = "fetch"
  /\ started = 3
  /\ cycle = 2
  /\ \E h \in seenTransactions : firstSeenTimes[h] > 0

(***************************************************************************)
(* Progress of the loop, checked under LiveSpec.                            *)
(***************************************************************************)
\* C17: a failed request never ends the run: the step that completes such a
\* cycle changes no observation and leaves the loop running and asleep, and
\* from there the next call of checkMempool eventually begins unless the stop
\* signal ends the run first.
C17_FailedFetchDoesNotEndRun ==
  /\ [][(CycleStep /\ mempoolData'.isNull) =>
          /\ pc' = "sleep"
          /\ isRunning'
          /\ ~summary'.displayed
          /\ seenTransactions' = seenTransactions
          /\ firstSeenTimes' = firstSeenTimes
          /\ everObserved' = everObserved]_vars
  /\ (pc = "sleep" /\ mempoolData.isNull) ~> (pc = "fetch" \/ pc = "exited")

\* After a failed cycle and the sleep the next call of checkMempool has
\* begun, hashes of an earlier cycle still recorded.
C17_Witness ==
  /\ pc = "fetch"
  /\ failedCycles = 1
  /\ started = cycle + 1
  /\ cycle = 2
  /\ seenTransactions # {}

(***************************************************************************)
(* Properties of both tools, checked under MainSpec.                        *)
(***************************************************************************)
\* The monitor was given no wallet address or one that is not an address.
WalletInvalid == pc # "none" /\ walletArg \in {"", "0xZZ"}

\* The comparator was given no first path or no second path.
FilePathMissing == cpc # "none" /\ (firstFile = "" \/ secondFile = "")

\* C19: invalid configuration is fatal before any processing: a monitor given
\* a missing or malformed wallet address exits with failure from main(), no
\* call of checkMempool having begun and no observation state touched; a
\* comparator given no first or no second file path exits with failure from
\* main(), nothing compared and no result produced.
C19_InvalidConfigurationFatal ==
  /\ [](WalletInvalid =>
          /\ pc \in {"main", "failed"}
          /\ ~isRunning
          /\ started = 0 /\ cycle = 0
          /\ mempoolData = Null
          /\ seenTransactions = {} /\ firstSeenTimes = NoFirstSeen
          /\ ~summary.displayed)
  /\ [](FilePathMissing =>
          /\ cpc \in {"main", "failed"}
          /\ ~compared
          /\ comparison = NoComparison)
  /\ [][/\ (WalletInvalid /\ pc = "main") => pc' = "failed"
        /\ (FilePathMissing /\ cpc = "main") => cpc' = "failed"]_vars

\* The comparator has exited with failure: the second path was not given,
\* the first names a file that holds transactions.
C19_Witness ==
  /\ cpc = "failed"
  /\ firstFile = "mempool.json"
  /\ secondFile = ""
  /\ HashesIn(firstMempool) # {}
  /\ ~compared

\* The snapshot lacks the pending key, the queued key, or both.
LacksKey(data) == ~data.has["pending"] \/ ~data.has["queued"]

\* The snapshot with each missing sub-pool key replaced by an empty sub-pool.
WithEmptyPools(data) == [data EXCEPT !.has = [p \in PoolNames |-> TRUE]]

\* C20: a snapshot that lacks the pending key, the queued key or both is
\* processed as if the missing sub-pool were empty.  The comparator given such
\* a file completes and returns what it returns for the files with the
\* missing sub-pools empty, and returns five empty categories for two
\* snapshots without entries; a monitor cycle that fetched such a snapshot
\* completes with the entries and new transactions of the snapshot with the
\* missing sub-pools empty, and the loop is not ended by it.
C20_MissingPoolIsEmpty ==
  /\ (cpc \in {"done", "failed"} /\ FilesAccepted(firstFile, secondFile)
        /\ (LacksKey(firstMempool) \/ LacksKey(secondMempool))) =>
       /\ cpc = "done"
       /\ compared
       /\ comparison = compareFiles(WithEmptyPools(firstMempool),
                                    WithEmptyPools(secondMempool))
       /\ (Places(firstMempool) = {} /\ Places(secondMempool) = {})
            => comparison = NoComparison
  /\ (pc \in {"sleep", "stopped"} /\ ~mempoolData.isNull
        /\ LacksKey(mempoolData.value)) =>
       /\ allWalletTransactions = WalletTransactions(WithEmptyPools(mempoolData.value))
       /\ Len(allWalletTransactions) = Cardinality(WalletPlaces(mempoolData.value))
       /\ SeqHashes(newTransactions) \subseteq WalletHashes(mempoolData.value)
       /\ WalletHashes(mempoolData.value) \subseteq seenTransactions
       /\ (pc = "stopped" => newTransactions # <<>>)

\* A monitor cycle after the first has fetched a snapshot without the pending
\* key whose queued sub-pool lists two entries of the monitored address, one
\* of them new, and the loop sleeps.
C20_Witness ==
  /\ pc = "sleep"
  /\ cycle >= 2
  /\ ~mempoolData.isNull
  /\ ~mempoolData.value.has["pending"]
  /\ Len(allWalletTransactions) = 2
  /\ Len(newTransactions) = 1

(***************************************************************************)
(* Properties of the monitor with submission, checked under SendSpec.       *)
(***************************************************************************)
\* A step in which sendTransaction ends with a failure logged.
SendFailureStep ==
  /\ Len(sendLog') = Len(sendLog) + 1
  /\ sendLog'[Len(sendLog')].outcome = "failed"

\* C18: a failed submission (getFeeData, the send or the confirmation fails)
\* is recovered locally: the step leaves seenTransactions, firstSeenTimes and
\* isRunning as they were and displays no summary on its account, and
\* displayNewTransactions goes on with the remaining new transactions of the
\* cycle, up to the next submission it awaits or to the end of the list,
\* after which the loop sleeps, still running, for the next cycle; only an
\* error in displaying a remaining transaction can end the loop in that step.
C18_SendFailureRecovered ==
  [][SendFailureStep =>
       /\ seenTransactions' = seenTransactions
       /\ firstSeenTimes' = firstSeenTimes
       /\ isRunning /\ isRunning'
       /\ newTransactions' = newTransactions
       /\ pc' \in {"feeData", "sleep", "stopped"}
       /\ (pc' = "stopped") => displayIndex < Len(newTransactions)
       /\ (pc' # "stopped") =>
            /\ ~summary'.displayed
            /\ displayIndex' = NextSendFrom(newTransactions, displayIndex + 1, config)
            /\ (pc' = "feeData") <=> (displayIndex' > displayIndex)
            /\ (pc' = "sleep") <=> (displayIndex' = 0)]_vars

\* The submission for the first new transaction of a cycle failed, the one
\* for the second was confirmed, and after the sleep the next call of
\* checkMempool has begun.
C18_Witness ==
  /\ pc = "fetch"
  /\ started = 2
  /\ Len(sendLog) = 2
  /\ sendLog[1].outcome = "failed"
  /\ sendLog[2].outcome = "confirmed"
  /\ seenTransactions = {sendLog[1].hash, sendLog[2].hash}

\* C27 as stated: whenever a competing transaction is submitted for a target
\* transaction, its gas price is strictly higher than the target
\* transaction's gas price, whatever the configured multiplier and the
\* network's current gas price.
C27_HigherThanTarget ==
  txRequest.built =>
    txRequest.gasPrice > TransactionGasPrice(newTransactions[displayIndex].hash)

\* A submission is in progress: sendTransaction awaits the fee data, the
\* send or the confirmation.
SubmissionInProgress == pc \in {"feeData", "send", "wait"}

\* The hashes for which a submission was begun: those of the submissions
\* that ended and that of the one in progress.
SubmittedHashes ==
  {sendLog[i].hash : i \in 1..Len(sendLog)}
    \cup (IF SubmissionInProgress THEN {newTransactions[displayIndex].hash} ELSE {})

\* C28: a submission is begun only when the private key and the recipient
\* address are both configured and, when a target hash is configured, only
\* for a transaction whose hash equals the target, letter case ignored; a
\* transaction request is built only within such a submission, for an entry
\* of the cycle's newTransactions; and with both configured and no target
\* hash, a cycle whose display ran to its end has begun a submission for
\* every entry of its newTransactions.
C28_SendOnlyWhenConfigured ==
  /\ SubmittedHashes # {} => (config.privateKey /\ config.recipientAddress)
  /\ config.targetTxHash # "" =>
       \A h \in SubmittedHashes : toLowerCase(h) = toLowerCase(config.targetTxHash)
  /\ txRequest.built => SubmissionInProgress
  /\ SubmissionInProgress => displayIndex \in 1..Len(newTransactions)
  /\ (pc = "sleep" /\ config.privateKey /\ config.recipientAddress
        /\ config.targetTxHash = "") =>
       SeqHashes(newTransactions) \subseteq SubmittedHashes

\* The target 0xAA is configured and a cycle reported two new transactions,
\* 0xaa among them: one submission was made, for 0xaa, and the loop sleeps.
C28_Witness ==
  /\ pc = "sleep"
  /\ config.targetTxHash = "0xAA"
  /\ Len(newTransactions) = 2
  /\ Len(sendLog) = 1
  /\ sendLog[1].hash = "0xaa"

\* How many submissions were begun for a hash: those that ended and the one
\* in progress.
TimesSubmitted(h) ==
  Cardinality({i \in 1..Len(sendLog) : sendLog[i].hash = h})
    + (IF SubmissionInProgress /\ newTransactions[displayIndex].hash = h
       THEN 1 ELSE 0)

SelectedIndexes ==
  {i \in 1..Len(newTransactions) :
     /\ shouldSendTransaction(newTransactions[i], config)
     /\ config.privateKey /\ config.recipientAddress}

\* The submission for entry i of newTransactions has ended, confirmed or
\* failed.
SubmissionEnded(i) ==
  \E k \in 1..Len(sendLog) :
    /\ sendLog[k].hash = newTransactions[i].hash
    /\ sendLog[k].outcome \in {"confirmed", "failed"}

\* C30: the submissions of a cycle are made one at a time, in the order of
\* newTransactions, each awaited to its end.  While a submission is in
\* progress every selected entry before it has ended, confirmed or failed,
\* and none after it has begun, the loop is running and no call of
\* checkMempool is in progress; the loop reaches its sleep (after the status
\* report) only when every selected entry has ended; and the step that
\* begins a call of checkMempool starts from the sleep, no submission being
\* in progress before or after it.
C30_SubmissionsSequential ==
  /\ [](SubmissionInProgress =>
          /\ isRunning
          /\ started = cycle
          /\ displayIndex \in SelectedIndexes
          /\ \A i \in SelectedIndexes :
               SubmissionEnded(i) <=> i < displayIndex)
  /\ [](pc = "sleep" => \A i \in SelectedIndexes : SubmissionEnded(i))
  /\ [][/\ started' # started =>
             (~SubmissionInProgress /\ ~SubmissionInProgress'
                /\ pc \in {"new", "sleep"})
        /\ (SubmissionInProgress /\ displayIndex' # displayIndex
               /\ pc' # "exited") =>
             /\ Len(sendLog') = Len(sendLog) + 1
             /\ sendLog'[Len(sendLog')].hash = newTransactions[displayIndex].hash
             /\ displayIndex' \in {0} \cup {i \in SelectedIndexes : i > displayIndex}]_vars

\* With no target configured a cycle reported two new transactions: the
\* submission for the first has been confirmed, the one for the second awaits
\* its confirmation, and the first call of checkMempool is the only one begun.
C30_Witness ==
  /\ pc = "wait"
  /\ Len(newTransactions) = 2
  /\ displayIndex = 2
  /\ sendLog = << [hash |-> newTransactions[1].hash, outcome |-> "confirmed"] >>
  /\ started = 1
  /\ cycle = 1

\* C33 (checked under SendSpec): the stop signal is handled while the loop
\* awaits the request, an await of a submission or the sleep, and in every
\* such state seenTransactions and firstSeenTimes have the same keys, the two
\* updates for a new hash being made in one step; the handler changes
\* neither, and when the run has exited on the signal the summary's count of
\* unique transactions is the number of entries of its timeline, which lists
\* the hashes of seenTransactions.
C33_StopSeesSameKeys ==
  /\ [](pc \in AwaitPoints => seenTransactions = DOMAIN firstSeenTimes)
  /\ [](pc = "exited" =>
          /\ summary.displayed
          /\ summary.total = Len(summary.timeline)
          /\ SeqHashes(summary.timeline) = seenTransactions)
  /\ [][(pc' = "exited" /\ pc # "exited") =>
          /\ pc \in AwaitPoints
          /\ seenTransactions' = seenTransactions
          /\ firstSeenTimes' = firstSeenTimes
          /\ DOMAIN firstSeenTimes' = seenTransactions']_vars

\* With no target configured a cycle reported two new transactions; the
\* signal arrived while the submission for the second was awaited, the first
\* having ended: the summary counts two and lists two.
C33_Witness ==
  /\ pc = "exited"
  /\ CanSend(config)
  /\ config.targetTxHash = ""
  /\ cycle = 1
  /\ Cardinality(seenTransactions) = 2
  /\ Len(sendLog) = 1
  /\ summary.total = 2
  /\ Len(summary.timeline) = 2

(***************************************************************************)
(* Properties of the collector, checked under CollectLiveSpec.              *)
(***************************************************************************)
\* The step of CollectAndSave: the request of a collection cycle settles.
CollectStep == kpc = "fetch" /\ kpc' \in {"sleep", "done"}

\* How many entries a snapshot holds in a sub-pool, read off the snapshot.
PlacesIn(data, poolType) ==
  Cardinality({pk \in Places(data) : pk[1] = poolType})

\* The transaction counts of a file's summary are those of the snapshot the
\* file holds, a missing sub-pool counting as zero, and the total is their sum.
SummaryCounts(file) ==
  /\ file.summary.pendingTransactions = PlacesIn(file.mempoolData, "pending")
  /\ file.summary.queuedTransactions = PlacesIn(file.mempoolData, "queued")
  /\ file.summary.totalTransactions
       = file.summary.pendingTransactions + file.summary.queuedTransactions
  /\ ~file.mempoolData.has["pending"] => file.summary.pendingTransactions = 0
  /\ ~file.mempoolData.has["queued"] => file.summary.queuedTransactions = 0

\* A cycle whose fetch fails writes nothing and, in continuous mode, leaves
\* the loop running and asleep.
FailedFetchWritesNothing ==
  (CollectStep /\ collectorData'.isNull) =>
    /\ savedFiles' = <<>>
    /\ filesWritten' = filesWritten
    /\ mode = "continuous" => (kpc' = "sleep" /\ collectorRunning')

\* After a failed fetch the sleeping loop begins its next cycle, unless the
\* stop signal ends the run first.
NextCycleAfterFailedFetch ==
  (kpc = "sleep" /\ collectorData.isNull) ~> (kpc = "fetch" \/ kpc = "exited")

\* C36 as stated: a collection cycle whose fetch fails writes no snapshot file
\* and, in continuous mode, does not end the collection loop (the next cycle
\* runs after the interval); a cycle whose fetch succeeds writes the fetched
\* snapshot with a summary whose totalTransactions equals pendingTransactions
\* + queuedTransactions, a missing sub-pool counting as zero.
C36_FetchedSnapshotWritten ==
  /\ [][/\ FailedFetchWritesNothing
        /\ (CollectStep /\ ~collectorData'.isNull) =>
             /\ filesWritten' = filesWritten + 1
             /\ Len(savedFiles') = 1
             /\ savedFiles'[1].mempoolData = collectorData'.value
             /\ SummaryCounts(savedFiles'[1])]_vars
  /\ NextCycleAfterFailedFetch

\* C36 as amended: a collection cycle whose fetch fails writes no snapshot
\* file and, in continuous mode, does not end the collection loop (the next
\* cycle runs after the interval); a cycle whose fetch succeeds makes one
\* write: when the write succeeds the file holds the fetched snapshot,
\* unchanged, with a summary whose totalTransactions equals
\* pendingTransactions + queuedTransactions, each the number of entries of
\* its sub-pool and a missing sub-pool counting as zero; when the write fails
\* the error is caught, no file is written and, in continuous mode, the loop
\* is not ended either.
C36_FetchedSnapshotWrittenUnlessWriteFails ==
  /\ [][/\ FailedFetchWritesNothing
        /\ (CollectStep /\ ~collectorData'.isNull) =>
             /\ filesWritten' \in {filesWritten, filesWritten + 1}
             /\ filesWritten' = filesWritten + 1 =>
                  /\ Len(savedFiles') = 1
                  /\ savedFiles'[1].mempoolData = collectorData'.value
                  /\ savedFiles'[1].timestamp = CollectTimes[collectorClock']
                  /\ savedFiles'[1].filename = FileName(savedFiles'[1].timestamp)
                  /\ SummaryCounts(savedFiles'[1])
             /\ filesWritten' = filesWritten => savedFiles' = <<>>
             /\ mode = "continuous" => (kpc' = "sleep" /\ collectorRunning')]_vars
  /\ NextCycleAfterFailedFetch

\* In continuous mode the first cycle's fetch failed and nothing was
\* written; the second cycle fetched a snapshot that lacks the queued key and
\* holds two pending entries and wrote it, the summary counting two in all,
\* and the loop sleeps, still running.
C36_Witness ==
  /\ mode = "continuous"
  /\ kpc = "sleep"
  /\ collectorRunning
  /\ collections = 2
  /\ fetchFailures = 1
  /\ filesWritten = 1
  /\ ~collectorData.isNull
  /\ Len(savedFiles) = 1
  /\ savedFiles[1].mempoolData = collectorData.value
  /\ ~savedFiles[1].mempoolData.has["queued"]
  /\ savedFiles[1].summary.pendingTransactions = 2
  /\ savedFiles[1].summary.totalTransactions = 2
====
